---- MODULE Spec2Model ----
(***************************************************************************)
(* A model of pytype's abstract-value utilities:                           *)
(*   - abstract_utils.get_views, the resumable view generator              *)
(*   - abstract_utils.apply_mutations, the mutation batcher                *)
(*   - class_mixin.Class.compute_mro and abstract_utils.get_mro_bases      *)
(*   - abstract_utils._merge_type, parse_formal_type_parameters,           *)
(*     compute_template and build_generic_template                         *)
(* The value graph (cfg.Variable, cfg.Binding, cfg.Node) and               *)
(* cfg_utils.deep_variable_product are collaborators whose code is not in  *)
(* src/; they are modelled from their description in spec.md, and so are   *)
(* mro.MROMerge, mro.MergeSequences and datatypes.AliasingDict.            *)
(***************************************************************************)
EXTENDS Naturals, Integers, Sequences, FiniteSets, TLC

(* ------------------------------ bounds --------------------------------- *)
MaxVars == 2          \* Variables handed to get_views
MaxBindings == 3      \* Bindings a Variable holds before get_views runs
MaxProduct == 6       \* size of the largest Cartesian product explored
MaxVarsTwo == 1       \* Variables, when two invocations are interleaved
MaxProductTwo == 3    \* product size, when two invocations are interleaved
MaxUnreachable == 2   \* combinations the Node rejects
MaxMutations == 3     \* mutations in one batch
MaxNodes == 2         \* Nodes of the graph before apply_mutations runs
MaxClasses == 5       \* classes defined, none of them parameterized
MaxGenericClasses == 3 \* classes defined, when bases may be parameterized
MaxBases == 2         \* direct bases of a class
MaxBaseVars == 3      \* base Variables handed to get_mro_bases
MaxCalls == 2         \* calls of get_mro_bases on the same bases
MaxParsed == 3        \* bases whose formal type parameters are parsed
MaxTemplateBases == 3 \* bases of the class whose template is computed
MaxTypeParams == 3    \* parameters written in one Generic[...]
MaxAccesses == 3      \* accesses to all_formal_type_parameters of one class
MaxSubsts == 2        \* dictionaries in one collection of substitutions
MaxMro == 3           \* entries of the mro of the class examined
MaxAncestors == 3     \* entries of an mro after the class itself
MaxDecoCalls == 3     \* calls of one Decorator
MaxOps == 3     \* entries of vm.local_ops[cls_name]
MaxBaseClasses == 2     \* entries of self.mro[1:]

(* node.program.default_data: the wildcard value of the fallback. *)
DefaultData == 0

VARIABLES
  (* get_views: the value graph *)
  variables,     \* the Variables given to get_views, a sequence of ids
  bindings,      \* Variable id -> its ordered Bindings
  unreachable,   \* the sets of Bindings node.CanHaveCombination rejects
  limit,         \* the complexity cap of deep_variable_product
  (* get_views: one generator frame per invocation *)
  gens,          \* the invocations that exist
  pc,            \* invocation -> "start" | "loop" | "yielded" | "done"
  combinations,  \* invocation -> [fallback, rows]
  idx,           \* invocation -> index of the next combination
  seen,          \* invocation -> accessed subsets of previously seen views
  view,          \* invocation -> the View it is suspended on
  yielded,       \* invocation -> the Views handed out so far (history)
  queried,       \* invocation -> the CanHaveCombination calls made (history)
  skipped,       \* invocation -> combinations dropped by the seen test (history)
  (* apply_mutations *)
  mpc,           \* "call" | "iter" | "returned" ("idle": no call is modelled)
  mutations,     \* what get_mutations() yields, a sequence of triples
  mi,            \* mutations consumed so far
  argNode,       \* the Node apply_mutations was given
  node,          \* the local variable node
  num_mutations, \* the local counter
  nodes,         \* Nodes of the graph: id -> [name, parent]
  events,        \* ConnectNew and merge_instance_type_parameter calls, in order
  retval,        \* the returned Node (0 before the return)
  (* class definitions *)
  classes,       \* the classes defined so far: [name, bases, mro, failed]
  generics,      \* whether bases may be ParameterizedClasses
  (* get_mro_bases *)
  base_vars,     \* the base Variables of a class statement
  resolved,      \* what each call of get_mro_bases on them returned
  (* parse_formal_type_parameters *)
  fbases,        \* the resolved bases of the class being loaded
  fi,            \* how many of them have been parsed
  ftp,           \* formal_type_parameters: type parameter name -> type
  merges,        \* the _merge_type calls made: [t0, t1, ok, result]
  ferror,        \* whether GenericTypeError was raised
  (* compute_template *)
  tbases,        \* the resolved bases of the class
  tdone,         \* whether compute_template has run
  tresult,       \* what it returned or raised: [ok, error, template]
  (* build_generic_template *)
  type_params,   \* the parameters written in Generic[...]
  gdone,         \* whether build_generic_template has run
  gresult,       \* what it returned and logged: [template, type_params, errors]
  (* Class.all_formal_type_parameters *)
  loaded,        \* _all_formal_type_parameters_loaded
  accesses,      \* what each access did: [ok, ftp, parsed]
  (* a function of class_mixin or classgen, called once *)
  call_args,     \* its arguments
  call_done,     \* whether it has returned
  call_ret,      \* what it returned
  (* classgen.Decorator *)
  _current_args, \* the args stored for the class to come, or None
  args,          \* map from each class decorated to its args
  calls          \* the calls made: [namedargs, posarg]

viewVars == <<variables, bindings, unreachable, limit, gens, pc, combinations,
              idx, seen, view, yielded, queried, skipped>>
mutVars == <<mpc, mutations, mi, argNode, node, num_mutations, nodes, events,
             retval>>
mroVars == <<classes, generics>>
basesVars == <<base_vars, resolved>>
formalVars == <<fbases, fi, ftp, merges, ferror>>
templateVars == <<tbases, tdone, tresult>>
genericVars == <<type_params, gdone, gresult>>
loadVars == <<loaded, accesses>>
callVars == <<call_args, call_done, call_ret>>
decoVars == <<_current_args, args, calls>>
restVars == <<loadVars, callVars, decoVars>>
clsVars ==
  <<mroVars, basesVars, formalVars, templateVars, genericVars, restVars>>
exceptMro ==
  <<viewVars, mutVars, basesVars, formalVars, templateVars, genericVars,
    restVars>>
exceptBases ==
  <<viewVars, mutVars, mroVars, formalVars, templateVars, genericVars,
    restVars>>
exceptFormal ==
  <<viewVars, mutVars, mroVars, basesVars, templateVars, genericVars,
    restVars>>
exceptTemplate ==
  <<viewVars, mutVars, mroVars, basesVars, formalVars, genericVars,
    restVars>>
exceptGeneric ==
  <<viewVars, mutVars, mroVars, basesVars, formalVars, templateVars,
    restVars>>
typeVars == <<mroVars, basesVars, templateVars, genericVars>>
exceptLoad == <<viewVars, mutVars, typeVars, callVars, decoVars>>
exceptCall == <<viewVars, mutVars, typeVars, formalVars, loadVars, decoVars>>
exceptDeco == <<viewVars, mutVars, typeVars, formalVars, loadVars, callVars>>
vars == <<viewVars, mutVars, clsVars>>

(* ------------------------------ helpers -------------------------------- *)
Range(s) == {s[i] : i \in 1..Len(s)}

RECURSIVE Concat(_)
Concat(ss) == IF ss = <<>> THEN <<>> ELSE Head(ss) \o Concat(Tail(ss))

(* The sequences over S of length at most n. *)
RECURSIVE SeqsUpTo(_, _)
SeqsUpTo(S, n) ==
  IF n = 0 THEN {<<>>}
  ELSE LET shorter == SeqsUpTo(S, n - 1)
       IN shorter \cup {Append(q, x) : q \in shorter, x \in S}

Binding(v, d) == [variable |-> v, data |-> d]

(* ------------------------- the value graph ----------------------------- *)
(* itertools.product over the Variables' binding lists, in its order: the  *)
(* last Variable varies fastest; no Variables give one empty combination.  *)
RECURSIVE VariableProduct(_, _)
VariableProduct(vs, bs) ==
  IF vs = <<>> THEN << <<>> >>
  ELSE LET rest == VariableProduct(Tail(vs), bs)
           hd == bs[Head(vs)]
       IN Concat([i \in 1..Len(hd) |->
                    [j \in 1..Len(rest) |-> <<hd[i]>> \o rest[j]]])

(* cfg_utils.deep_variable_product: the product, or TooComplexError when   *)
(* it has more rows than the cap.                                          *)
deep_variable_product(vs, bs, lim) ==
  LET rows == VariableProduct(vs, bs)
  IN IF Len(rows) > lim THEN [raised |-> TRUE, rows |-> <<>>]
     ELSE [raised |-> FALSE, rows |-> rows]

(* Variable.AddBinding(data, [], node): the Binding of this Variable for   *)
(* data, appended when the Variable has none.                              *)
HasData(bs, v, d) == \E i \in 1..Len(bs[v]) : bs[v][i].data = d

AddBinding(bs, v, d) ==
  IF HasData(bs, v, d) THEN bs
  ELSE [bs EXCEPT ![v] = Append(@, Binding(v, d))]

RECURSIVE AddBindings(_, _, _)
AddBindings(bs, vs, d) ==
  IF vs = <<>> THEN bs
  ELSE AddBindings(AddBinding(bs, Head(vs), d), Tail(vs), d)

(* node.CanHaveCombination(combination) *)
CanHaveCombination(combination) == Range(combination) \notin unreachable

(* ------------------------------ get_views ------------------------------ *)
(* Combinations without the except clause: the error reaches the caller. *)
CombinationsUncaught(vs, bs, lim) ==
  LET product == deep_variable_product(vs, bs, lim)
  IN IF product.raised
     THEN [fallback |-> FALSE, rows |-> <<>>, error |-> "TooComplexError"]
     ELSE [fallback |-> FALSE, rows |-> product.rows, error |-> "none"]

(* try: deep_variable_product / except TooComplexError: one combination,   *)
(* a generator of wildcard Bindings that runs when the loop consumes it.   *)
Combinations(vs, bs, lim) ==
  LET product == deep_variable_product(vs, bs, lim)
  IN IF product.raised
     THEN [fallback |-> TRUE, rows |-> <<>>, error |-> "none"]
     ELSE [fallback |-> FALSE, rows |-> product.rows, error |-> "none"]

NumRows(c) == IF c.fallback THEN 1 ELSE Len(c.rows)

(* The wildcard combination: var.AddBinding(default_data, [], node) for    *)
(* var in variables.                                                       *)
WildcardCombination(vs) == [i \in 1..Len(vs) |-> Binding(vs[i], DefaultData)]

(* The combination the loop is about to process. *)
Row(c, i, vs) == IF c.fallback THEN WildcardCombination(vs) ELSE c.rows[i]

(* The Variables' Bindings once the loop has drawn the combination. *)
BindingsAfterDraw(c, bs, vs) ==
  IF c.fallback THEN AddBindings(bs, vs, DefaultData) ELSE bs

(* view = {value.variable: value for value in combination}: a later value  *)
(* of the same Variable replaces an earlier one.                           *)
LastOf(combination, v) ==
  combination[CHOOSE i \in 1..Len(combination) :
                /\ combination[i].variable = v
                /\ \A j \in (i+1)..Len(combination) : combination[j].variable # v]

(* View with every key given the first value of the combination. *)
ViewOfFirstValue(combination) ==
  [v \in {combination[i].variable : i \in 1..Len(combination)} |->
     combination[1]]

View(combination) ==
  [v \in {combination[i].variable : i \in 1..Len(combination)} |->
     LastOf(combination, v)]

(* list(view.values()): the values in the order their keys were inserted. *)
IsFirstKey(combination, i) ==
  \A j \in 1..(i-1) : combination[j].variable # combination[i].variable

ViewValues(vw, combination) ==
  LET firsts == SelectSeq([i \in 1..Len(combination) |->
                             [pos |-> i, key |-> combination[i].variable]],
                          LAMBDA e : IsFirstKey(combination, e.pos))
  IN [k \in 1..Len(firsts) |-> vw[firsts[k].key]]

(* subset <= view.items() *)
(* The subset test that an empty subset never passes. *)
ItemsSubsetNonEmpty(subset, vw) ==
  /\ DOMAIN subset # {}
  /\ \A k \in DOMAIN subset : k \in DOMAIN vw /\ vw[k] = subset[k]

ItemsSubset(subset, vw) ==
  \A k \in DOMAIN subset : k \in DOMAIN vw /\ vw[k] = subset[k]

(* AlreadySeen with the comparison turned around: view.items() <= subset. *)
AlreadySeenReversed(seenList, vw) ==
  \E n \in 1..Len(seenList) : ItemsSubset(vw, seenList[n])

(* any(subset <= view.items() for subset in seen) *)
AlreadySeen(seenList, vw) ==
  \E n \in 1..Len(seenList) : ItemsSubset(seenList[n], vw)

(* view.accessed_subset: the items of the keys the consumer read. *)
AccessedSubset(vw, accessed) == [k \in accessed |-> vw[k]]

(* Iteration that yields whatever CanHaveCombination answers. *)
IterationAlwaysYields(seenList, combination) ==
  LET vw == View(combination)
      values == ViewValues(vw, combination)
  IN IF AlreadySeen(seenList, vw)
     THEN [outcome |-> "skip_seen", queries |-> <<>>, view |-> vw]
     ELSE [outcome |-> "yield",
           queries |-> <<[combination |-> values,
                          result |-> CanHaveCombination(values)]>>,
           view |-> vw]

(* Iteration with the reachability test inverted. *)
IterationInvertedTest(seenList, combination) ==
  LET vw == View(combination)
      values == ViewValues(vw, combination)
  IN IF AlreadySeen(seenList, vw)
     THEN [outcome |-> "skip_seen", queries |-> <<>>, view |-> vw]
     ELSE IF CanHaveCombination(values)
     THEN [outcome |-> "skip_unreachable",
           queries |-> <<[combination |-> values, result |-> TRUE]>>,
           view |-> vw]
     ELSE [outcome |-> "yield",
           queries |-> <<[combination |-> values, result |-> FALSE]>>,
           view |-> vw]

(* Iteration that asks the graph before it tests the seen list. *)
IterationQueryFirst(seenList, combination) ==
  LET vw == View(combination)
      values == ViewValues(vw, combination)
      answer == CanHaveCombination(values)
      query == <<[combination |-> values, result |-> answer]>>
  IN IF ~answer
     THEN [outcome |-> "skip_unreachable", queries |-> query, view |-> vw]
     ELSE IF AlreadySeen(seenList, vw)
     THEN [outcome |-> "skip_seen", queries |-> query, view |-> vw]
     ELSE [outcome |-> "yield", queries |-> query, view |-> vw]

(* One pass of the loop body up to the yield: the seen test, then the      *)
(* graph query, then the yield.                                            *)
Iteration(seenList, combination) ==
  LET vw == View(combination)
      values == ViewValues(vw, combination)
  IN IF AlreadySeen(seenList, vw)
     THEN [outcome |-> "skip_seen", queries |-> <<>>, view |-> vw]
     ELSE IF ~CanHaveCombination(values)
     THEN [outcome |-> "skip_unreachable",
           queries |-> <<[combination |-> values, result |-> FALSE]>>,
           view |-> vw]
     ELSE [outcome |-> "yield",
           queries |-> <<[combination |-> values, result |-> TRUE]>>,
           view |-> vw]

(* Seen as one list shared by every invocation. *)
SeenShared(g) == seen[1] \o seen[2]

(* The seen list one invocation consults: a local of its own frame. *)
Seen(g) == seen[g]

EmptyView == [v \in {} |-> 0]

(* First resumption: the product (or its fallback) and seen = []. *)
Start(g) ==
  /\ g \in gens /\ pc[g] = "start"
  /\ LET c == Combinations(variables, bindings, limit)
     IN /\ combinations' = [combinations EXCEPT ![g] = [fallback |-> c.fallback,
                                                        rows |-> c.rows]]
        /\ pc' = [pc EXCEPT ![g] = IF c.error = "none" THEN "loop" ELSE "raised"]
  /\ idx' = [idx EXCEPT ![g] = 1]
  /\ seen' = [seen EXCEPT ![g] = <<>>]
  /\ UNCHANGED <<variables, bindings, unreachable, limit, gens, view, yielded,
                 queried, skipped, mutVars, clsVars>>

InLoop(g) ==
  /\ g \in gens /\ pc[g] = "loop"
  /\ idx[g] <= NumRows(combinations[g])

Step(g) == Iteration(Seen(g), Row(combinations[g], idx[g], variables))

(* The view matches the accessed subset of a previous one: continue. *)
SkipSeen(g) ==
  /\ InLoop(g)
  /\ Step(g).outcome = "skip_seen"
  /\ bindings' = BindingsAfterDraw(combinations[g], bindings, variables)
  /\ skipped' = [skipped EXCEPT ![g] =
                   Append(@, Row(combinations[g], idx[g], variables))]
  /\ queried' = [queried EXCEPT ![g] = @ \o Step(g).queries]
  /\ idx' = [idx EXCEPT ![g] = @ + 1]
  /\ UNCHANGED <<variables, unreachable, limit, gens, pc, combinations, seen,
                 view, yielded, mutVars, clsVars>>

(* node.CanHaveCombination says no: continue. *)
SkipUnreachable(g) ==
  /\ InLoop(g)
  /\ Step(g).outcome = "skip_unreachable"
  /\ bindings' = BindingsAfterDraw(combinations[g], bindings, variables)
  /\ queried' = [queried EXCEPT ![g] = @ \o Step(g).queries]
  /\ idx' = [idx EXCEPT ![g] = @ + 1]
  /\ UNCHANGED <<variables, unreachable, limit, gens, pc, combinations, seen,
                 view, yielded, skipped, mutVars, clsVars>>

(* skip_future = yield view *)
Yield(g) ==
  /\ InLoop(g)
  /\ Step(g).outcome = "yield"
  /\ bindings' = BindingsAfterDraw(combinations[g], bindings, variables)
  /\ queried' = [queried EXCEPT ![g] = @ \o Step(g).queries]
  /\ view' = [view EXCEPT ![g] = Step(g).view]
  /\ yielded' = [yielded EXCEPT ![g] = Append(@, Step(g).view)]
  /\ pc' = [pc EXCEPT ![g] = "yielded"]
  /\ UNCHANGED <<variables, unreachable, limit, gens, combinations, idx, seen,
                 skipped, mutVars, clsVars>>

(* The consumer reads the Variables in accessed and resumes the generator  *)
(* with skip_future; a true skip_future commits the accessed subset. What  *)
(* was read changes nothing when skip_future is false, so one       *)
(* representative (nothing read) stands for those resumptions.             *)
Resume(g) ==
  /\ g \in gens /\ pc[g] = "yielded"
  /\ \E skip_future \in BOOLEAN :
       \E accessed \in SUBSET (DOMAIN view[g]) :
         /\ ~skip_future => accessed = {}
         /\ seen' = [seen EXCEPT ![g] =
                       IF skip_future
                       THEN Append(@, AccessedSubset(view[g], accessed))
                       ELSE @]
  /\ idx' = [idx EXCEPT ![g] = @ + 1]
  /\ pc' = [pc EXCEPT ![g] = "loop"]
  /\ UNCHANGED <<variables, bindings, unreachable, limit, gens, combinations,
                 view, yielded, queried, skipped, mutVars, clsVars>>

(* The combinations are used up: the generator returns (StopIteration). *)
Exhausted(g) ==
  /\ g \in gens /\ pc[g] = "loop"
  /\ idx[g] > NumRows(combinations[g])
  /\ pc' = [pc EXCEPT ![g] = "done"]
  /\ UNCHANGED <<variables, bindings, unreachable, limit, gens, combinations,
                 idx, seen, view, yielded, queried, skipped, mutVars, clsVars>>

(* --------------------------- apply_mutations --------------------------- *)
Objs == {"o1", "o2"}
ParamNames == {"T"}
Values == {"int", "str"}
Mutation == [obj : Objs, name : ParamNames, value : Values]

(* node.ConnectNew(name): a new Node after this one. *)
ConnectNew(graph, n, name) ==
  [graph |-> Append(graph, [name |-> name, parent |-> n]),
   new |-> Len(graph) + 1]

ConnectNewEvent(n, new) ==
  [op |-> "ConnectNew", node |-> n, result |-> new,
   obj |-> "", name |-> "", value |-> ""]

MergeEvent(n, m) ==
  [op |-> "merge_instance_type_parameter", node |-> n, result |-> 0,
   obj |-> m.obj, name |-> m.name, value |-> m.value]

(* LoopBody that never counts: every mutation connects a new Node. *)
LoopBodyConnectsEachTime(n, num, graph, m) ==
  LET cn == ConnectNew(graph, n, graph[n].name)
  IN [node |-> cn.new,
      num_mutations |-> num,
      graph |-> cn.graph,
      events |-> <<ConnectNewEvent(n, cn.new), MergeEvent(cn.new, m)>>]

(* The body of the for loop, for one (obj, name, value). *)
LoopBody(n, num, graph, m) ==
  LET connect == (num = 0)
      cn == ConnectNew(graph, n, graph[n].name)
      n1 == IF connect THEN cn.new ELSE n
  IN [node |-> n1,
      num_mutations |-> num + 1,
      graph |-> IF connect THEN cn.graph ELSE graph,
      events |-> (IF connect THEN <<ConnectNewEvent(n, cn.new)>> ELSE <<>>)
                 \o <<MergeEvent(n1, m)>>]

(* MutCall that connects the new Node on entry, before any mutation. *)
MutCallEager ==
  /\ mpc = "call"
  /\ LET cn == ConnectNew(nodes, argNode, nodes[argNode].name)
     IN /\ node' = cn.new
        /\ nodes' = cn.graph
        /\ events' = events \o <<ConnectNewEvent(argNode, cn.new)>>
  /\ num_mutations' = 0
  /\ mpc' = "iter"
  /\ UNCHANGED <<mutations, mi, argNode, retval, viewVars, clsVars>>

(* apply_mutations(node, get_mutations) is entered. *)
MutCall ==
  /\ mpc = "call"
  /\ node' = argNode
  /\ num_mutations' = 0
  /\ mpc' = "iter"
  /\ UNCHANGED <<mutations, mi, argNode, nodes, events, retval, viewVars, clsVars>>

(* get_mutations() yields its next triple. *)
MutIterate ==
  /\ mpc = "iter"
  /\ mi < Len(mutations)
  /\ LET r == LoopBody(node, num_mutations, nodes, mutations[mi + 1])
     IN /\ node' = r.node
        /\ num_mutations' = r.num_mutations
        /\ nodes' = r.graph
        /\ events' = events \o r.events
  /\ mi' = mi + 1
  /\ UNCHANGED <<mpc, mutations, argNode, retval, viewVars, clsVars>>

(* get_mutations() is used up: return node. *)
MutReturn ==
  /\ mpc = "iter"
  /\ mi = Len(mutations)
  /\ retval' = node
  /\ mpc' = "returned"
  /\ UNCHANGED <<mutations, mi, argNode, node, num_mutations, nodes, events,
                 viewVars, clsVars>>

(* --------------------------- class values ------------------------------ *)
(* An InterpreterClass, a PyTDClass, a ParameterizedClass wrapping the     *)
(* class of the same name (its base_cls), and vm.convert.unsolvable.       *)
Cls(name) == [kind |-> "class", name |-> name, arg |-> ""]
PyTDCls(name) == [kind |-> "pytd", name |-> name, arg |-> ""]
Parameterized(name, arg) == [kind |-> "parameterized", name |-> name, arg |-> arg]
Unsolvable == [kind |-> "unsolvable", name |-> "?", arg |-> ""]

isinstance_ParameterizedClass(v) == v.kind = "parameterized"
isinstance_Unsolvable(v) == v.kind = "unsolvable"
full_name(v) == v.name

(* base.base_cls of a ParameterizedClass: the class it wraps. *)
base_cls(v) ==
  IF v.name = "typing.Generic" THEN PyTDCls(v.name) ELSE Cls(v.name)

ClassNames == <<"X", "Y", "A", "B", "C", "D", "E">>
TypeArgs == {"int", "str"}

IndexOfClass(cs, name) == CHOOSE i \in 1..Len(cs) : cs[i].name = name

(* value.mro: a class's cached linearization; a ParameterizedClass lists   *)
(* itself and then the rest of the linearization of the class it wraps.    *)
MroOf(cs, v) ==
  IF \E i \in 1..Len(cs) : cs[i].name = v.name
  THEN LET m == cs[IndexOfClass(cs, v.name)].mro
       IN IF isinstance_ParameterizedClass(v) THEN <<v>> \o Tail(m) ELSE m
  ELSE <<v>>

(* ------------------------------ mro.MROMerge --------------------------- *)
InTail(x, seq) == \E k \in 2..Len(seq) : seq[k] = x

EligibleIgnoringTails(seqs, i) == seqs[i] # <<>>

(* A list whose head is in no other list's tail. *)
Eligible(seqs, i) ==
  /\ seqs[i] # <<>>
  /\ \A j \in 1..Len(seqs) : j # i => ~InTail(seqs[i][1], seqs[j])

Without(seq, x) == SelectSeq(seq, LAMBDA y : y # x)

(* Repeatedly select the first list head that is in no other list's tail,  *)
(* append it, remove it everywhere; fail when no head is eligible.         *)
RECURSIVE MergeSequences(_, _)
MergeSequences(seqs, res) ==
  IF \A i \in 1..Len(seqs) : seqs[i] = <<>>
  THEN [ok |-> TRUE, seq |-> res]
  ELSE IF \A i \in 1..Len(seqs) : ~Eligible(seqs, i)
  THEN [ok |-> FALSE, seq |-> <<>>]
  ELSE LET i == CHOOSE i \in 1..Len(seqs) :
                  /\ Eligible(seqs, i)
                  /\ \A j \in 1..(i-1) : ~Eligible(seqs, j)
           cand == seqs[i][1]
       IN MergeSequences([k \in 1..Len(seqs) |-> Without(seqs[k], cand)],
                         Append(res, cand))

MROMerge(seqs) == MergeSequences(seqs, <<>>)

(* ------------------------------ get_mro_bases -------------------------- *)
(* get_atomic_value(variable, default=default): the data of the only       *)
(* Binding, else the default. A Variable is the sequence of its data.      *)
get_atomic_value(variable, default) ==
  IF Len(variable) = 1 THEN variable[1] ELSE default

get_mro_basesKeepingGeneric(bases) ==
  LET withData == SelectSeq(bases, LAMBDA base_var : base_var # <<>>)
  IN [i \in 1..Len(withData) |-> get_atomic_value(withData[i], Unsolvable)]

get_mro_bases(bases) ==
  LET withData == SelectSeq(bases, LAMBDA base_var : base_var # <<>>)
      mro_bases == [i \in 1..Len(withData) |->
                      get_atomic_value(withData[i], Unsolvable)]
      has_user_generic ==
        \E i \in 1..Len(mro_bases) :
          /\ isinstance_ParameterizedClass(mro_bases[i])
          /\ full_name(mro_bases[i]) # "typing.Generic"
  IN IF has_user_generic
     THEN SelectSeq(mro_bases, LAMBDA b : full_name(b) # "typing.Generic")
     ELSE mro_bases

(* ------------------------------ compute_mro ---------------------------- *)
MroRowsWithoutBaseMros(cs, self, bases) == << <<self>>, bases >>

(* The rows of the merge: [self], each base's mro, the base list. *)
MroRows(cs, self, bases) ==
  << <<self>> >> \o [i \in 1..Len(bases) |-> MroOf(cs, bases[i])] \o <<bases>>

(* What a row entry is merged as: the wrapped class of a ParameterizedClass.*)
MergeKey(base) ==
  IF isinstance_ParameterizedClass(base) THEN base_cls(base) ELSE base

Base2ClsKeepsFirst(rows, key) ==
  LET flat == Concat(rows)
      first == CHOOSE i \in 1..Len(flat) :
                 /\ MergeKey(flat[i]) = key
                 /\ \A j \in 1..(i-1) : MergeKey(flat[j]) # key
  IN flat[first]

(* base2cls[key] after the scan of all rows: every assignment overwrites   *)
(* the one before it.                                                      *)
Base2Cls(rows, key) ==
  LET flat == Concat(rows)
      last == CHOOSE i \in 1..Len(flat) :
                /\ MergeKey(flat[i]) = key
                /\ \A j \in (i+1)..Len(flat) : MergeKey(flat[j]) # key
  IN flat[last]

compute_mro(cs, self, baseVars) ==
  LET bases == get_mro_bases(baseVars)
      rows == MroRows(cs, self, bases)
      newbases == [i \in 1..Len(rows) |->
                     [j \in 1..Len(rows[i]) |-> MergeKey(rows[i][j])]]
      merged == MROMerge(newbases)
  IN IF merged.ok
     THEN [ok |-> TRUE,
           mro |-> [k \in 1..Len(merged.seq) |-> Base2Cls(rows, merged.seq[k])]]
     ELSE [ok |-> FALSE, mro |-> <<>>]

(* The values a new class can name as a base: the classes defined so far   *)
(* whose linearization exists, bare or (with generics) parameterized.      *)
BaseValues(cs, withGenerics) ==
  LET usable == {cs[i].name : i \in {j \in 1..Len(cs) : ~cs[j].failed}}
  IN {Cls(n) : n \in usable}
     \cup (IF withGenerics
           THEN {Parameterized(n, a) : n \in usable, a \in TypeArgs}
           ELSE {})

(* Base lists: one Variable with one value per base, no class twice. *)
BaseLists(cs, withGenerics) ==
  LET V == BaseValues(cs, withGenerics)
  IN {bs \in SeqsUpTo(V, MaxBases) :
        \A i, j \in 1..Len(bs) : bs[i].name = bs[j].name => i = j}

(* A class statement: the class is created and its mro computed; an        *)
(* MroError leaves the class without a linearization.                      *)
DefineClass ==
  /\ Len(classes) < (IF generics THEN MaxGenericClasses ELSE MaxClasses)
  /\ \E bs \in BaseLists(classes, generics) :
       LET name == ClassNames[Len(classes) + 1]
           baseVars == [i \in 1..Len(bs) |-> <<bs[i]>>]
           r == compute_mro(classes, Cls(name), baseVars)
       IN classes' = Append(classes, [name |-> name, bases |-> baseVars,
                                      mro |-> r.mro, failed |-> ~r.ok])
  /\ UNCHANGED <<generics, exceptMro>>

(* ------------------------- formal type parameters --------------------- *)
(* An entry of formal_type_parameters that is not bound yet. *)
None == [kind |-> "none", name |-> "None", arg |-> ""]

(* The builtin types bases bind a type parameter to, and their mro. *)
TypeNames == {"object", "int", "bool", "str"}

TypeMro(t) ==
  IF t.name = "bool" THEN <<PyTDCls("bool"), PyTDCls("int"), PyTDCls("object")>>
  ELSE IF t.name = "object" THEN <<PyTDCls("object")>>
  ELSE <<t, PyTDCls("object")>>

_merge_typeKeepsSecond(t0, t1) == [ok |-> TRUE, type |-> t1]

_merge_typeFirstWins(t0, t1) ==
  IF t0 = None \/ isinstance_Unsolvable(t0) THEN [ok |-> TRUE, type |-> t1]
  ELSE [ok |-> TRUE, type |-> t0]

_merge_type(t0, t1) ==
  IF t0 = None \/ isinstance_Unsolvable(t0) THEN [ok |-> TRUE, type |-> t1]
  ELSE IF t1 = None \/ isinstance_Unsolvable(t1) THEN [ok |-> TRUE, type |-> t0]
  ELSE IF t0 \in Range(TypeMro(t1)) THEN [ok |-> TRUE, type |-> t1]
  ELSE IF t1 \in Range(TypeMro(t0)) THEN [ok |-> TRUE, type |-> t0]
  ELSE [ok |-> FALSE, type |-> None]

(* The generic classes of the program: List and Set declare Generic[T],    *)
(* IntList derives from List[int], AnyList from the bare List.             *)
ClassBases(name) ==
  IF name \in {"List", "Set"} THEN <<Parameterized("typing.Generic", "T")>>
  ELSE IF name = "IntList" THEN <<Parameterized("List", "int")>>
  ELSE IF name = "AnyList" THEN <<Cls("List")>>
  ELSE <<>>

(* cls.template, as the names of its type parameters. *)
TemplateOf(name) == IF name \in {"List", "Set"} THEN <<"T">> ELSE <<>>

full_type_name(val, name) == val.name \o "." \o name

(* What a type argument of a ParameterizedClass stands for. *)
ArgValue(arg) == IF arg = "Any" THEN Unsolvable ELSE PyTDCls(arg)

(* base.get_formal_type_parameters() of a ParameterizedClass. *)
get_formal_type_parameters(base) ==
  [n \in {full_type_name(base, TemplateOf(base.name)[1])} |-> ArgValue(base.arg)]

FormalNames == <<"List.T", "Set.T">>

Put(d, k, v) == [x \in DOMAIN d \cup {k} |-> IF x = k THEN v ELSE d[x]]

EmptyDict == [x \in {} |-> None]

(* formal_type_parameters[name] = merge(last_type, param, name); the       *)
(* exception of _merge_type ends the parse.                                *)
MergeEntry(st, name, param) ==
  LET r == _merge_type(st.ftp[name], param)
      call == [t0 |-> st.ftp[name], t1 |-> param, ok |-> r.ok, result |-> r.type]
  IN [ok |-> r.ok,
      ftp |-> IF r.ok THEN Put(st.ftp, name, r.type) ELSE st.ftp,
      merges |-> Append(st.merges, call)]

(* Set the entry, or merge it with the one already there. *)
SetOrMerge(st, name, param) ==
  IF ~st.ok THEN st
  ELSE IF name \notin DOMAIN st.ftp
  THEN [st EXCEPT !.ftp = Put(st.ftp, name, param)]
  ELSE MergeEntry(st, name, param)

(* AliasingDict.merge_from(other, merge), without aliases. *)
RECURSIVE MergeFromAt(_, _, _)
MergeFromAt(st, other, k) ==
  IF k > Len(FormalNames) THEN st
  ELSE IF FormalNames[k] \in DOMAIN other
  THEN MergeFromAt(SetOrMerge(st, FormalNames[k], other[FormalNames[k]]),
                   other, k + 1)
  ELSE MergeFromAt(st, other, k + 1)

merge_from(st, other) == MergeFromAt(st, other, 1)

RECURSIVE parse_formal_type_parameters(_, _)
RECURSIVE LoadFrom(_, _, _)

(* _load_all_formal_type_parameters: the bases of the class parsed in      *)
(* order into one map.                                                     *)
LoadFrom(bases, k, st) ==
  IF k > Len(bases) \/ ~st.ok THEN st
  ELSE LoadFrom(bases, k + 1, parse_formal_type_parameters(bases[k], st))

all_formal_type_parameters(cls) ==
  LoadFrom(ClassBases(cls.name), 1,
           [ok |-> TRUE, ftp |-> EmptyDict, merges |-> <<>>]).ftp

parse_formal_type_parametersOverwriting(base, st) ==
  IF isinstance_ParameterizedClass(base)
  THEN IF full_name(base) = "typing.Generic" THEN st
       ELSE LET merged == merge_from(st, all_formal_type_parameters(base_cls(base)))
                params == get_formal_type_parameters(base)
                name == CHOOSE n \in DOMAIN params : TRUE
            IN SetOrMerge(merged, name, params[name])
  ELSE LET merged == merge_from(st, all_formal_type_parameters(base))
           unbound == {full_type_name(base, TemplateOf(base.name)[i]) :
                         i \in 1..Len(TemplateOf(base.name))}
       IN IF merged.ok
          THEN [merged EXCEPT !.ftp = [x \in DOMAIN merged.ftp \cup unbound |->
                                         IF x \in unbound THEN None
                                         ELSE merged.ftp[x]]]
          ELSE merged

parse_formal_type_parameters(base, st) ==
  IF isinstance_ParameterizedClass(base)
  THEN IF full_name(base) = "typing.Generic" THEN st
       ELSE LET merged == merge_from(st, all_formal_type_parameters(base_cls(base)))
                params == get_formal_type_parameters(base)
                name == CHOOSE n \in DOMAIN params : TRUE
            IN SetOrMerge(merged, name, params[name])
  ELSE LET merged == merge_from(st, all_formal_type_parameters(base))
           unbound == {full_type_name(base, TemplateOf(base.name)[i]) :
                         i \in 1..Len(TemplateOf(base.name))}
                      \ DOMAIN merged.ftp
       IN IF merged.ok
          THEN [merged EXCEPT !.ftp = [x \in DOMAIN merged.ftp \cup unbound |->
                                         IF x \in unbound THEN None
                                         ELSE merged.ftp[x]]]
          ELSE merged

(* The bases whose type parameters are parsed. *)
FormalBases ==
  {Parameterized("List", a) : a \in TypeNames \cup {"Any"}}
  \cup {Parameterized("Set", "int"), Parameterized("Set", "str")}
  \cup {Cls("List"), Cls("IntList"), Cls("AnyList")}

(* One iteration of the loop of _load_all_formal_type_parameters. *)
ParseBase ==
  /\ ~ferror
  /\ fi < Len(fbases)
  /\ LET st == parse_formal_type_parameters(
                 fbases[fi + 1], [ok |-> TRUE, ftp |-> ftp, merges |-> merges])
     IN /\ ftp' = st.ftp
        /\ merges' = st.merges
        /\ ferror' = ~st.ok
  /\ fi' = fi + 1
  /\ UNCHANGED <<fbases, exceptFormal>>

(* ------------------------------ compute_template ---------------------- *)
(* A base of the class: a bare class, or a ParameterizedClass with what    *)
(* each item of its template is bound to.                                  *)
Base(kind, name, params) == [kind |-> kind, name |-> name, params |-> params]

TypeVars == {"T", "U", "V"}

isinstance_TypeParameter(param) == param \in TypeVars

(* param.with_module(val.full_name) *)
with_module(param, module) == [name |-> param, module |-> module]

NoTemplate == [ok |-> TRUE, error |-> "", template |-> <<>>]

GenericTypeError(msg) == [ok |-> FALSE, error |-> msg, template |-> <<>>]

(* The first loop: the template typing.Generic gives. *)
RECURSIVE GenericTemplate(_, _, _, _)
GenericTemplate(val, bases, k, template) ==
  IF k > Len(bases) THEN [NoTemplate EXCEPT !.template = template]
  ELSE IF full_name(bases[k]) # "typing.Generic"
  THEN GenericTemplate(val, bases, k + 1, template)
  ELSE IF bases[k].kind = "pytd"
  THEN GenericTypeError("Cannot inherit from plain Generic")
  ELSE IF template # <<>>
  THEN GenericTypeError("Cannot inherit from Generic[...] multiple times")
  ELSE GenericTemplate(val, bases, k + 1,
         [i \in 1..Len(bases[k].params) |-> with_module(bases[k].params[i], val)])

(* The type parameters a ParameterizedClass binds its template to. *)
TypeParametersOf(val, base) ==
  LET tps == SelectSeq(base.params, isinstance_TypeParameter)
  IN [i \in 1..Len(tps) |-> with_module(tps[i], val)]

compute_template(val, bases) ==
  LET generic == GenericTemplate(val, bases, 1, <<>>)
  IN IF ~generic.ok THEN generic
     ELSE IF generic.template # <<>>
     THEN IF \E k \in 1..Len(bases) :
               /\ full_name(bases[k]) # "typing.Generic"
               /\ isinstance_ParameterizedClass(bases[k])
               /\ \E t \in Range(TypeParametersOf(val, bases[k])) :
                    t \notin Range(generic.template)
          THEN GenericTypeError("Generic should contain all the type variables")
          ELSE generic
     ELSE LET parameterized == SelectSeq(bases, isinstance_ParameterizedClass)
              seqs == [k \in 1..Len(parameterized) |->
                         TypeParametersOf(val, parameterized[k])]
              merged == MergeSequences(seqs, <<>>)
          IN IF merged.ok
             THEN [NoTemplate EXCEPT !.template = merged.seq]
             ELSE GenericTypeError("Illegal type parameter order")

(* The bases a class statement can name. *)
TemplateBases ==
  {Base("pytd", "typing.Generic", <<>>), Base("class", "A", <<>>)}
  \cup {Base("parameterized", "typing.Generic", ps) :
          ps \in {<<>>, <<"T">>, <<"T", "U">>}}
  \cup {Base("parameterized", "Foo", ps) :
          ps \in {<<"T", "int">>, <<"T", "U">>, <<"T", "V">>, <<"U", "T">>,
                  <<"T", "List[V]">>}}

(* compute_template of the class C with these bases. *)
ComputeTemplate ==
  /\ ~tdone
  /\ tbases # <<>>
  /\ tresult' = compute_template("C", tbases)
  /\ tdone' = TRUE
  /\ UNCHANGED <<tbases, exceptTemplate>>

(* --------------------------- build_generic_template ------------------- *)
NothingBuilt == [template |-> <<>>, type_params |-> <<>>, errors |-> <<>>]

build_generic_templateDeduplicating(params) ==
  LET kept == SelectSeq(params, isinstance_TypeParameter)
      first == SelectSeq([i \in 1..Len(kept) |-> <<i, kept[i]>>],
                         LAMBDA e : \A j \in 1..(e[1] - 1) : kept[j] # e[2])
      template == [i \in 1..Len(first) |-> first[i][2]]
  IN [template |-> template,
      type_params |-> template,
      errors |->
        (IF kept = params THEN <<>>
         ELSE <<"Parameters to Generic[...] must all be type variables">>)
        \o (IF Len(template) = Len(kept) THEN <<>>
            ELSE <<"Parameters to Generic[...] must all be unique">>)]

build_generic_template(params) ==
  LET allTypeVars == \A i \in 1..Len(params) : isinstance_TypeParameter(params[i])
      kept == IF allTypeVars THEN params
              ELSE SelectSeq(params, isinstance_TypeParameter)
      template == kept
      unique == Cardinality(Range(template)) = Len(template)
  IN [template |-> template,
      type_params |-> kept,
      errors |->
        (IF allTypeVars THEN <<>>
         ELSE <<"Parameters to Generic[...] must all be type variables">>)
        \o (IF unique THEN <<>>
            ELSE <<"Parameters to Generic[...] must all be unique">>)]

(* What can be written between the brackets of Generic[...]. *)
GenericParams == TypeVars \cup {"int", "str"}

(* Generic[...] is subscripted. *)
BuildGenericTemplate ==
  /\ ~gdone
  /\ type_params # <<>>
  /\ gresult' = build_generic_template(type_params)
  /\ gdone' = TRUE
  /\ UNCHANGED <<type_params, exceptGeneric>>

(* --------------------- Class.all_formal_type_parameters ---------------- *)
(* How many bases the loop of _load_all_formal_type_parameters parses      *)
(* before it ends or GenericTypeError leaves it.                           *)
RECURSIVE ParsedFrom(_, _, _)
ParsedFrom(bases, k, st) ==
  IF k > Len(bases) THEN Len(bases)
  ELSE IF ~parse_formal_type_parameters(bases[k], st).ok THEN k
  ELSE ParsedFrom(bases, k + 1, parse_formal_type_parameters(bases[k], st))

AccessFormalAlwaysLoads ==
  /\ Len(accesses) < MaxAccesses
  /\ LET start == [ok |-> TRUE, ftp |-> ftp, merges |-> <<>>]
         st == LoadFrom(fbases, 1, start)
     IN /\ ftp' = st.ftp
        /\ loaded' = st.ok
        /\ accesses' = Append(accesses,
                              [ok |-> st.ok, ftp |-> st.ftp,
                               parsed |-> ParsedFrom(fbases, 1, start)])
  /\ UNCHANGED <<fbases, fi, merges, ferror, exceptLoad>>

(* One access to the property all_formal_type_parameters of the class:     *)
(* _load_all_formal_type_parameters, then the map is returned.             *)
AccessFormal ==
  /\ Len(accesses) < MaxAccesses
  /\ IF loaded
     THEN /\ accesses' = Append(accesses, [ok |-> TRUE, ftp |-> ftp,
                                           parsed |-> 0])
          /\ UNCHANGED <<ftp, loaded>>
     ELSE LET start == [ok |-> TRUE, ftp |-> ftp, merges |-> <<>>]
              st == LoadFrom(fbases, 1, start)
          IN /\ ftp' = st.ftp
             /\ loaded' = st.ok
             /\ accesses' = Append(accesses,
                                   [ok |-> st.ok, ftp |-> st.ftp,
                                    parsed |-> ParsedFrom(fbases, 1, start)])
  /\ UNCHANGED <<fbases, fi, merges, ferror, exceptLoad>>

(* ------------------------------ combine_substs ------------------------- *)
(* An Optional collection of substitutions: None, or its dictionaries. *)
NoSubsts == [is_none |-> TRUE, items |-> <<>>]

Substs(items) == [is_none |-> FALSE, items |-> items]

(* bool(substs): neither None nor empty. *)
Truthy(substs) == ~substs.is_none /\ substs.items # <<>>

MergedDictFirstWins(sub1, sub2) ==
  [k \in DOMAIN sub1 \cup DOMAIN sub2 |->
     IF k \in DOMAIN sub1 THEN sub1[k] ELSE sub2[k]]

(* {**sub1, **sub2} *)
MergedDict(sub1, sub2) ==
  [k \in DOMAIN sub1 \cup DOMAIN sub2 |->
     IF k \in DOMAIN sub2 THEN sub2[k] ELSE sub1[k]]

combine_substs(substs1, substs2) ==
  IF Truthy(substs1) /\ Truthy(substs2)
  THEN LET n1 == Len(substs1.items)
           n2 == Len(substs2.items)
       IN Substs([k \in 1..(n1 * n2) |->
                    MergedDict(substs1.items[((k - 1) \div n2) + 1],
                               substs2.items[((k - 1) % n2) + 1])])
  ELSE IF Truthy(substs1) THEN substs1
  ELSE IF Truthy(substs2) THEN substs2
  ELSE Substs(<<>>)

(* The substitutions of the type parameters T and U by the Variables a, b. *)
SubstDicts ==
  {EmptyDict,
   [k \in {"T"} |-> "a"], [k \in {"T"} |-> "b"], [k \in {"U"} |-> "a"],
   [k \in {"T", "U"} |-> IF k = "T" THEN "a" ELSE "b"]}

SubstCollections ==
  {NoSubsts} \cup {Substs(items) : items \in SeqsUpTo(SubstDicts, MaxSubsts)}

CombineSubsts ==
  /\ ~call_done
  /\ call_args.fn = "combine_substs"
  /\ call_ret' = combine_substs(call_args.substs1, call_args.substs2)
  /\ call_done' = TRUE
  /\ UNCHANGED <<call_args, exceptCall>>

(* ------------------------ Class._init_abstract_methods ----------------- *)
(* An entry of an mro: a class with the attributes it declares and those   *)
(* of them it marks abstract, or a value that is not a Class.              *)
ClassEntry(attrs, abstract) ==
  [is_class |-> TRUE, attrs |-> attrs, abstract |-> abstract]

NotAClass == [is_class |-> FALSE, attrs |-> {}, abstract |-> {}]

(* name in cls *)
Declares(cls, name) == name \in cls.attrs

RECURSIVE abstract_methods(_, _)
RECURSIVE SweepAbstractMethods(_, _, _, _)

SweepAbstractMethodsForward(mro, k, j, methods) ==
  LET RECURSIVE Forward(_, _)
      Forward(i, acc) ==
        IF i > Len(mro) THEN acc
        ELSE IF ~mro[i].is_class THEN Forward(i + 1, acc)
        ELSE LET cls_abstract == IF i = k THEN mro[i].abstract
                                 ELSE abstract_methods(mro, i)
                 kept == {n \in acc : ~Declares(mro[i], n) \/ n \in cls_abstract}
             IN Forward(i + 1,
                        kept \cup {n \in cls_abstract : Declares(mro[i], n)})
  IN Forward(k, methods)

(* The loop over reversed(self.mro), from entry j down to the class k      *)
(* itself, whose abstract_methods still are its own ones.                  *)
SweepAbstractMethods(mro, k, j, methods) ==
  IF j < k THEN methods
  ELSE IF ~mro[j].is_class THEN SweepAbstractMethods(mro, k, j - 1, methods)
  ELSE LET cls_abstract == IF j = k THEN mro[j].abstract
                           ELSE abstract_methods(mro, j)
           kept == {n \in methods :
                      ~Declares(mro[j], n) \/ n \in cls_abstract}
       IN SweepAbstractMethods(
            mro, k, j - 1,
            kept \cup {n \in cls_abstract : Declares(mro[j], n)})

(* abstract_methods of the class mro[k], whose own mro is the rest of mro. *)
abstract_methods(mro, k) == SweepAbstractMethods(mro, k, Len(mro), {})

MethodNames == {"f", "g"}

(* The classes of a single-inheritance chain, and what else an mro holds.  *)
MroEntries ==
  {ClassEntry(attrs, abstract) :
     attrs \in SUBSET MethodNames, abstract \in SUBSET MethodNames}
  \cup {NotAClass}

Mros(entries) ==
  {mro \in SeqsUpTo(entries, MaxMro) :
     /\ mro # <<>>
     /\ mro[1].is_class
     /\ \A i \in 1..Len(mro) : mro[i].abstract \subseteq mro[i].attrs}

InitAbstractMethods ==
  /\ ~call_done
  /\ call_args.fn = "_init_abstract_methods"
  /\ call_ret' = abstract_methods(call_args.mro, 1)
  /\ call_done' = TRUE
  /\ UNCHANGED <<call_args, exceptCall>>

(* ---------------------- Class._init_protocol_attributes ---------------- *)
(* An entry of an mro: a class with the attributes it declares and its     *)
(* protocol_attributes, as computed when the class was created.            *)
ProtocolEntry(attrs, protocol) ==
  [is_class |-> TRUE, attrs |-> attrs, protocol |-> protocol]

NotAProtocolClass == [is_class |-> FALSE, attrs |-> {}, protocol |-> {}]

(* cls.is_protocol *)
is_protocol(protocol_attributes) == protocol_attributes # {}

SweepProtocolAttributesUnfiltered(own, mro, j, attributes) ==
  LET RECURSIVE Back(_, _)
      Back(i, acc) ==
        IF i = 0 THEN acc
        ELSE IF ~mro[i].is_class THEN Back(i - 1, acc)
        ELSE LET cls_protocol == IF i = 1 THEN own ELSE mro[i].protocol
             IN IF is_protocol(cls_protocol)
                THEN Back(i - 1, acc \cup cls_protocol)
                ELSE Back(i - 1, {a \in acc : a \notin mro[i].attrs})
  IN Back(j, attributes)

(* The loop over reversed(self.mro), from entry j to the class itself,     *)
(* whose protocol_attributes still are its own attributes.                 *)
RECURSIVE SweepProtocolAttributes(_, _, _, _)
SweepProtocolAttributes(own, mro, j, attributes) ==
  IF j = 0 THEN attributes
  ELSE IF ~mro[j].is_class
  THEN SweepProtocolAttributes(own, mro, j - 1, attributes)
  ELSE LET cls_protocol == IF j = 1 THEN own ELSE mro[j].protocol
       IN IF is_protocol(cls_protocol)
          THEN SweepProtocolAttributes(
                 own, mro, j - 1,
                 attributes \cup {a \in cls_protocol : a \in mro[j].attrs})
          ELSE SweepProtocolAttributes(
                 own, mro, j - 1,
                 {a \in attributes : a \notin mro[j].attrs})

(* self is [has_protocol_parent, typing_pytd, abstract_methods, mro]. *)
protocol_attributes(self) ==
  IF ~self.has_protocol_parent THEN {}
  ELSE IF self.typing_pytd THEN self.abstract_methods
  ELSE SweepProtocolAttributes(self.mro[1].attrs, self.mro, Len(self.mro), {})

(* What the mro of a class holds after the class itself. *)
Ancestors ==
  {ProtocolEntry({}, {}), ProtocolEntry({"f"}, {}), ProtocolEntry({"f"}, {"f"}),
   ProtocolEntry({"g"}, {"g"}), ProtocolEntry({}, {"f"}),
   ProtocolEntry({"f", "g"}, {"f"}), NotAProtocolClass}

ProtocolClasses ==
  {[has_protocol_parent |-> p, typing_pytd |-> t, abstract_methods |-> ab,
    mro |-> <<ProtocolEntry(own, {})>> \o rest] :
     p \in BOOLEAN, t \in BOOLEAN, ab \in {{}, {"f"}},
     own \in SUBSET MethodNames, rest \in SeqsUpTo(Ancestors, MaxAncestors)}

InitProtocolAttributes ==
  /\ ~call_done
  /\ call_args.fn = "_init_protocol_attributes"
  /\ LET attributes == protocol_attributes(call_args.self)
     IN call_ret' = [protocol_attributes |-> attributes,
                     is_protocol |-> is_protocol(attributes)]
  /\ call_done' = TRUE
  /\ UNCHANGED <<call_args, exceptCall>>

(* ------------------------ Class._init_overrides_bool -------------------- *)
bool_overrideOfPython3(PY3) == "__bool__"

(* Python 2 used __nonzero__ rather than __bool__. *)
bool_override(PY3) == IF PY3 THEN "__bool__" ELSE "__nonzero__"

(* The loop over self.mro from entry k on. *)
RECURSIVE ScanOverridesBool(_, _, _)
ScanOverridesBool(PY3, mro, k) ==
  IF k > Len(mro) THEN FALSE
  ELSE IF mro[k].is_class
          /\ \E x \in {bool_override(PY3), "__len__"} : x \in mro[k].attrs
  THEN TRUE
  ELSE ScanOverridesBool(PY3, mro, k + 1)

(* cls is [parameterized, base_cls, mro]; a ParameterizedClass takes the   *)
(* flag its base_cls computed.                                             *)
RECURSIVE overrides_bool(_, _)
overrides_bool(PY3, cls) ==
  IF cls.parameterized THEN overrides_bool(PY3, cls.base_cls)
  ELSE ScanOverridesBool(PY3, cls.mro, 1)

BoolEntries ==
  {ClassEntry(attrs, {}) :
     attrs \in {{}, {"__bool__"}, {"__nonzero__"}, {"__len__"}, {"f"}}}
    \cup {NotAClass}

PlainClasses ==
  {[parameterized |-> FALSE, base_cls |-> None, mro |-> mro] :
     mro \in {s \in SeqsUpTo(BoolEntries, MaxMro) :
                Len(s) >= 1 /\ s[1].is_class}}

BoolClasses ==
  PlainClasses
    \cup {[parameterized |-> TRUE, base_cls |-> b, mro |-> b.mro] :
            b \in PlainClasses}

InitOverridesBool ==
  /\ ~call_done
  /\ call_args.fn = "_init_overrides_bool"
  /\ call_ret' = [overrides_bool |->
                    overrides_bool(call_args.PY3, call_args.self)]
  /\ call_done' = TRUE
  /\ UNCHANGED <<call_args, exceptCall>>

(* --------------------------- classgen.Decorator ------------------------- *)
_DEFAULT_ARGS == [init |-> "True", kw_only |-> "False", auto_attribs |-> "False"]

(* The keyword arguments of a call: constants, or a value that is no       *)
(* constant; eq is a keyword the decorator does not support.               *)
NamedArgs ==
  {[k \in {} |-> "True"], [init |-> "False"], [kw_only |-> "True"],
   [eq |-> "False"], [init |-> "nonconst"]}

DecoClasses == {"A", "B"}

(* args.posargs[0]: nothing, a class, or a value that is no class. *)
PosArgs == {"none", "Unsolvable"} \cup DecoClasses

(* get_atomic_python_constant raises ConversionError for these keys. *)
NonConstant(namedargs) ==
  {k \in DOMAIN namedargs \cap DOMAIN _DEFAULT_ARGS : namedargs[k] = "nonconst"}

(* Decorator.update_kwargs: the new _current_args. *)
update_kwargs(namedargs) ==
  [k \in DOMAIN _DEFAULT_ARGS |->
     IF k \in DOMAIN namedargs /\ k \notin NonConstant(namedargs)
     THEN namedargs[k] ELSE _DEFAULT_ARGS[k]]

(* if args.namedargs and not self._current_args: namedargs is an           *)
(* abstract.Dict, which is true even when empty.                           *)
UpdatesKwargs == _current_args = None

CurrentArgsAfter(namedargs) ==
  IF UpdatesKwargs THEN update_kwargs(namedargs) ELSE _current_args

Logged(namedargs, posarg) ==
  Append(calls, [namedargs |-> namedargs, posarg |-> posarg,
                 errors |-> IF UpdatesKwargs THEN NonConstant(namedargs)
                            ELSE {}])

(* call() without posargs: @decorator(...) creates the decorator. *)
CallWithoutPosargs ==
  /\ Len(calls) < MaxDecoCalls
  /\ \E namedargs \in NamedArgs :
       /\ _current_args' = CurrentArgsAfter(namedargs)
       /\ calls' = Logged(namedargs, "none")
  /\ UNCHANGED <<args, exceptDeco>>

(* call() on a value that is no class_mixin.Class. *)
CallOnNonClass ==
  /\ Len(calls) < MaxDecoCalls
  /\ \E namedargs \in NamedArgs :
       /\ _current_args' = CurrentArgsAfter(namedargs)
       /\ calls' = Logged(namedargs, "Unsolvable")
  /\ UNCHANGED <<args, exceptDeco>>

(* call() on a class: records its args and resets _current_args. *)
CallOnClass ==
  /\ Len(calls) < MaxDecoCalls
  /\ \E namedargs \in NamedArgs, cls \in DecoClasses :
       /\ args' = Put(args, cls, CurrentArgsAfter(namedargs))
       /\ _current_args' = None
       /\ calls' = Logged(namedargs, cls)
  /\ UNCHANGED exceptDeco

(* ------------------------- classgen.get_class_locals -------------------- *)
(* Names are strings of characters. *)
LocalNames ==
  {<<"x">>, <<"y">>, <<"_", "_", "x">>, <<"_", "_", "d", "_", "_">>}

startswith(name, prefix) ==
  Len(name) >= Len(prefix) /\ SubSeq(name, 1, Len(prefix)) = prefix

endswith(name, suffix) ==
  /\ Len(name) >= Len(suffix)
  /\ SubSeq(name, Len(name) - Len(suffix) + 1, Len(name)) = suffix

is_dunder(name) ==
  startswith(name, <<"_", "_">>) /\ endswith(name, <<"_", "_">>)

(* An op of vm.local_ops: an annotation or an assignment of a name. *)
LocalOps == [name : LocalNames, kind : {"annotate", "assign"}]

(* del out[name] *)
RECURSIVE DelKey(_, _)
DelKey(out, name) ==
  IF out = <<>> THEN <<>>
  ELSE IF Head(out) = name THEN DelKey(Tail(out), name)
  ELSE <<Head(out)>> \o DelKey(Tail(out), name)

LastAssignKeepingPlace(out, op) ==
  IF op.kind # "assign" \/ op.name \in Range(out) THEN out
  ELSE Append(out, op.name)

(* The else branch of the loop body: Ordering.LAST_ASSIGN. *)
LastAssign(out, op) ==
  IF op.kind # "assign" THEN out
  ELSE Append(DelKey(out, op.name), op.name)

(* The if branch of the loop body: Ordering.FIRST_ANNOTATE. *)
FirstAnnotate(out, op) ==
  IF op.kind # "annotate" \/ op.name \in Range(out) THEN out
  ELSE Append(out, op.name)

(* The keys of out, in order, after the ops from k on; methods are the     *)
(* names whose local in vm.annotated_locals is a method.                   *)
RECURSIVE ClassLocalsFrom(_, _, _, _, _, _)
ClassLocalsFrom(ops, k, allow_methods, ordering, methods, out) ==
  IF k > Len(ops) THEN out
  ELSE LET op == ops[k]
           kept ==
             IF is_dunder(op.name) THEN out
             ELSE IF ~allow_methods /\ op.name \in methods THEN out
             ELSE IF ordering = "FIRST_ANNOTATE" THEN FirstAnnotate(out, op)
             ELSE LastAssign(out, op)
       IN ClassLocalsFrom(ops, k + 1, allow_methods, ordering, methods, kept)

(* vm is [known, ops, methods]: whether cls_name is in vm.local_ops, its   *)
(* ops, and the names whose local is a method.                             *)
get_class_locals(allow_methods, ordering, vm) ==
  IF ~vm.known THEN <<>>
  ELSE ClassLocalsFrom(vm.ops, 1, allow_methods, ordering, vm.methods, <<>>)

GetClassLocals ==
  /\ ~call_done
  /\ call_args.fn = "get_class_locals"
  /\ call_ret' = [out |-> get_class_locals(call_args.allow_methods,
                                           call_args.ordering, call_args.vm)]
  /\ call_done' = TRUE
  /\ UNCHANGED <<call_args, exceptCall>>

(* -------------------------- Class._get_attrs_from_mro ------------------- *)
Attribute(name, typ) == [name |-> name, typ |-> typ]

AttrNames == {"a", "b"}

(* Lists of attributes, a name at most once in each. *)
AttrLists ==
  {<<>>}
    \cup {<<Attribute(n, t)>> : n \in AttrNames, t \in {"int", "str"}}
    \cup {<<Attribute(p[1], t), Attribute(p[2], t)>> :
            p \in {q \in AttrNames \X AttrNames : q[1] # q[2]},
            t \in {"int", "str"}}

(* An entry of self.mro[1:]: a class whose metadata has a list under       *)
(* metadata_key, a class without that key, or a value that is no class.    *)
MetadataEntry(sub_attrs) ==
  [is_class |-> TRUE, has_key |-> TRUE, sub_attrs |-> sub_attrs]

NoMetadata == [is_class |-> TRUE, has_key |-> FALSE, sub_attrs |-> <<>>]

NotAMetadataClass == [is_class |-> FALSE, has_key |-> FALSE, sub_attrs |-> <<>>]

BaseClassEntries ==
  {MetadataEntry(l) : l \in AttrLists} \cup {NoMetadata, NotAMetadataClass}

NamesOf(attrs) == {attrs[i].name : i \in 1..Len(attrs)}

(* base_attrs after the bases of self.mro[1:] from k on. *)
RECURSIVE BaseAttrsFrom(_, _, _, _)
BaseAttrsFrom(bases, k, taken_attr_names, base_attrs) ==
  IF k > Len(bases) THEN base_attrs
  ELSE IF ~bases[k].is_class \/ ~bases[k].has_key
  THEN BaseAttrsFrom(bases, k + 1, taken_attr_names, base_attrs)
  ELSE LET fresh == SelectSeq(bases[k].sub_attrs,
                              LAMBDA a : a.name \notin taken_attr_names)
       IN BaseAttrsFrom(bases, k + 1, taken_attr_names \cup NamesOf(fresh),
                        base_attrs \o fresh)

_get_mro_attrs_for_attrs(bases, cls_attrs) ==
  BaseAttrsFrom(bases, 1, NamesOf(cls_attrs), <<>>) \o cls_attrs

SetAttrMovingToEnd(all_attrs, a) ==
  SelectSeq(all_attrs, LAMBDA b : b.name # a.name) \o <<a>>

(* all_attrs[a.name] = a: a dict keeps the place of a key it already has. *)
SetAttr(all_attrs, a) ==
  IF a.name \in NamesOf(all_attrs)
  THEN [i \in 1..Len(all_attrs) |->
          IF all_attrs[i].name = a.name THEN a ELSE all_attrs[i]]
  ELSE Append(all_attrs, a)

RECURSIVE SetAttrs(_, _, _)
SetAttrs(all_attrs, attrs, i) ==
  IF i > Len(attrs) THEN all_attrs
  ELSE SetAttrs(SetAttr(all_attrs, attrs[i]), attrs, i + 1)

(* The lists of reversed(self.mro[1:]) from entry k down to the first,     *)
(* then cls_attrs.                                                         *)
RECURSIVE AllAttrsFrom(_, _, _, _)
AllAttrsFrom(bases, k, cls_attrs, all_attrs) ==
  IF k = 0 THEN SetAttrs(all_attrs, cls_attrs, 1)
  ELSE IF ~bases[k].is_class
  THEN AllAttrsFrom(bases, k - 1, cls_attrs, all_attrs)
  ELSE AllAttrsFrom(bases, k - 1, cls_attrs,
                    SetAttrs(all_attrs, bases[k].sub_attrs, 1))

(* bases is self.mro[1:]. *)
_get_attrs_from_mro(bases, cls_attrs, metadata_key) ==
  IF metadata_key = "__attrs_attrs__"
  THEN _get_mro_attrs_for_attrs(bases, cls_attrs)
  ELSE AllAttrsFrom(bases, Len(bases), cls_attrs, <<>>)

GetAttrsFromMro ==
  /\ ~call_done
  /\ call_args.fn = "_get_attrs_from_mro"
  /\ call_ret' = [attrs |-> _get_attrs_from_mro(call_args.bases,
                                                call_args.cls_attrs,
                                                call_args.metadata_key)]
  /\ call_done' = TRUE
  /\ UNCHANGED <<call_args, exceptCall>>

(* The Variables a class statement can hold for a base: no value, one     *)
(* value, or several candidate values.                                     *)
BaseVariables ==
  LET A == Cls("A")
      B == Cls("B")
      Generic == PyTDCls("typing.Generic")
  IN {<<>>}
     \cup {<<v>> : v \in {A, B, Parameterized("A", "int"), Generic,
                          Parameterized("typing.Generic", "T"), Unsolvable}}
     \cup {<<A, B>>, <<Parameterized("A", "int"), B>>, <<Generic, A>>}

(* One call of get_mro_bases on the bases of the class statement. *)
ResolveBases ==
  /\ base_vars # <<>>
  /\ Len(resolved) < MaxCalls
  /\ resolved' = Append(resolved, get_mro_bases(base_vars))
  /\ UNCHANGED <<base_vars, exceptBases>>

(* --------------------------- initial states ---------------------------- *)
Gens == {1, 2}

InitBindings(n) == [1..n -> {[k \in 1..m |-> k] : m \in 0..MaxBindings}]

BindingsOf(counts) ==
  [v \in DOMAIN counts |-> [k \in 1..Len(counts[v]) |-> Binding(v, counts[v][k])]]

(* The combinations get_views can hand to the Node for these inputs. *)
Candidates(vs, bs, lim) ==
  LET c == Combinations(vs, bs, lim)
  IN {Range(Row(c, i, vs)) : i \in 1..NumRows(c)}

ViewInit(G, maxVars, maxProduct) ==
  /\ \E n \in 0..maxVars :
       /\ variables = [i \in 1..n |-> i]
       /\ \E counts \in InitBindings(n) :
            /\ bindings = BindingsOf(counts)
            /\ Len(VariableProduct(variables, bindings)) <= maxProduct
  /\ limit \in 1..maxProduct
  /\ unreachable \in SUBSET Candidates(variables, bindings, limit)
  /\ Cardinality(unreachable) <= MaxUnreachable
  /\ gens = G
  /\ pc = [g \in Gens |-> IF g \in G THEN "start" ELSE "done"]
  /\ combinations = [g \in Gens |-> [fallback |-> FALSE, rows |-> <<>>]]
  /\ idx = [g \in Gens |-> 1]
  /\ seen = [g \in Gens |-> <<>>]
  /\ view = [g \in Gens |-> EmptyView]
  /\ yielded = [g \in Gens |-> <<>>]
  /\ queried = [g \in Gens |-> <<>>]
  /\ skipped = [g \in Gens |-> <<>>]

ViewIdle ==
  /\ variables = <<>> /\ bindings = <<>> /\ unreachable = {} /\ limit = 1
  /\ gens = {}
  /\ pc = [g \in Gens |-> "done"]
  /\ combinations = [g \in Gens |-> [fallback |-> FALSE, rows |-> <<>>]]
  /\ idx = [g \in Gens |-> 1]
  /\ seen = [g \in Gens |-> <<>>]
  /\ view = [g \in Gens |-> EmptyView]
  /\ yielded = [g \in Gens |-> <<>>]
  /\ queried = [g \in Gens |-> <<>>]
  /\ skipped = [g \in Gens |-> <<>>]

MutInit ==
  /\ mpc = "call"
  /\ mutations \in SeqsUpTo(Mutation, MaxMutations)
  /\ \E k \in 1..MaxNodes :
       /\ nodes = [i \in 1..k |-> [name |-> i, parent |-> i - 1]]
       /\ argNode \in 1..k
  /\ mi = 0 /\ node = 0 /\ num_mutations = 0 /\ events = <<>> /\ retval = 0

MutIdle ==
  /\ mpc = "idle" /\ mutations = <<>> /\ mi = 0 /\ argNode = 0 /\ node = 0
  /\ num_mutations = 0 /\ nodes = <<>> /\ events = <<>> /\ retval = 0

MroIdle == classes = <<>> /\ generics = FALSE

BasesIdle == base_vars = <<>> /\ resolved = <<>>

FormalIdle ==
  /\ fbases = <<>> /\ fi = 0 /\ ftp = EmptyDict /\ merges = <<>>
  /\ ferror = FALSE

TemplateIdle == tbases = <<>> /\ tdone = FALSE /\ tresult = NoTemplate

GenericIdle == type_params = <<>> /\ gdone = FALSE /\ gresult = NothingBuilt

LoadIdle == loaded = FALSE /\ accesses = <<>>

NoCall == [fn |-> "none"]

CallIdle == call_args = NoCall /\ call_done = FALSE /\ call_ret = NoCall

DecoIdle == _current_args = None /\ args = EmptyDict /\ calls = <<>>

RestIdle == LoadIdle /\ CallIdle /\ DecoIdle

TypeIdle == MroIdle /\ BasesIdle /\ TemplateIdle /\ GenericIdle

ClsIdle == TypeIdle /\ FormalIdle /\ RestIdle

(* One get_views invocation driven by an arbitrary consumer. *)
Init == ViewInit({1}, MaxVars, MaxProduct) /\ MutIdle /\ ClsIdle

ViewNext ==
  \E g \in Gens :
    \/ Start(g)
    \/ SkipSeen(g)
    \/ SkipUnreachable(g)
    \/ Yield(g)
    \/ Resume(g)
    \/ Exhausted(g)

Next == ViewNext

Spec == Init /\ [][Next]_vars

(* One apply_mutations call. *)
InitMut == MutInit /\ ViewIdle /\ ClsIdle

NextMut == MutCall \/ MutIterate \/ MutReturn

SpecMut == InitMut /\ [][NextMut]_vars

(* Two get_views invocations over the same Variables and Node, resumed in  *)
(* any interleaving.                                                       *)
InitTwo == ViewInit({1, 2}, MaxVarsTwo, MaxProductTwo) /\ MutIdle /\ ClsIdle

SpecTwo == InitTwo /\ [][Next]_vars

(* Class statements, one after the other. *)
InitMro ==
  /\ classes = <<>> /\ generics \in BOOLEAN
  /\ ViewIdle /\ MutIdle /\ BasesIdle /\ FormalIdle /\ TemplateIdle
  /\ GenericIdle
  /\ RestIdle

NextMro == DefineClass

SpecMro == InitMro /\ [][NextMro]_vars

(* get_mro_bases on the bases of one class statement. *)
InitBases ==
  /\ base_vars \in SeqsUpTo(BaseVariables, MaxBaseVars) \ {<<>>}
  /\ resolved = <<>>
  /\ ViewIdle /\ MutIdle /\ MroIdle /\ FormalIdle /\ TemplateIdle
  /\ GenericIdle
  /\ RestIdle

NextBases == ResolveBases

SpecBases == InitBases /\ [][NextBases]_vars

(* The formal type parameters of one class loaded from its bases. *)
InitFormal ==
  /\ fbases \in SeqsUpTo(FormalBases, MaxParsed) \ {<<>>}
  /\ fi = 0 /\ ftp = EmptyDict /\ merges = <<>> /\ ferror = FALSE
  /\ ViewIdle /\ MutIdle /\ MroIdle /\ BasesIdle /\ TemplateIdle
  /\ GenericIdle
  /\ RestIdle

NextFormal == ParseBase

SpecFormal == InitFormal /\ [][NextFormal]_vars

(* The template of one class computed from its bases. *)
InitTemplate ==
  /\ tbases \in SeqsUpTo(TemplateBases, MaxTemplateBases) \ {<<>>}
  /\ tdone = FALSE /\ tresult = NoTemplate
  /\ ViewIdle /\ MutIdle /\ MroIdle /\ BasesIdle /\ FormalIdle
  /\ GenericIdle
  /\ RestIdle

NextTemplate == ComputeTemplate

SpecTemplate == InitTemplate /\ [][NextTemplate]_vars

(* One Generic[...] subscript. *)
InitGeneric ==
  /\ type_params \in SeqsUpTo(GenericParams, MaxTypeParams) \ {<<>>}
  /\ gdone = FALSE /\ gresult = NothingBuilt
  /\ ViewIdle /\ MutIdle /\ MroIdle /\ BasesIdle /\ FormalIdle
  /\ TemplateIdle
  /\ RestIdle

NextGeneric == BuildGenericTemplate

SpecGeneric == InitGeneric /\ [][NextGeneric]_vars

(* The formal type parameters of one class, accessed again and again. *)
InitLoad ==
  /\ fbases \in SeqsUpTo(FormalBases, MaxParsed)
  /\ fi = 0 /\ ftp = EmptyDict /\ merges = <<>> /\ ferror = FALSE
  /\ loaded = FALSE /\ accesses = <<>>
  /\ ViewIdle /\ MutIdle /\ TypeIdle /\ CallIdle /\ DecoIdle

NextLoad == AccessFormal

SpecLoad == InitLoad /\ [][NextLoad]_vars

(* One call of combine_substs. *)
InitCombine ==
  /\ call_args \in [fn : {"combine_substs"}, substs1 : SubstCollections,
                    substs2 : SubstCollections]
  /\ call_done = FALSE /\ call_ret = NoCall
  /\ ViewIdle /\ MutIdle /\ TypeIdle /\ FormalIdle /\ LoadIdle /\ DecoIdle

NextCombine == CombineSubsts

SpecCombine == InitCombine /\ [][NextCombine]_vars

(* _init_abstract_methods of one class. *)
InitAbstract ==
  /\ call_args \in [fn : {"_init_abstract_methods"}, mro : Mros(MroEntries)]
  /\ call_done = FALSE /\ call_ret = NoCall
  /\ ViewIdle /\ MutIdle /\ TypeIdle /\ FormalIdle /\ LoadIdle /\ DecoIdle

NextAbstract == InitAbstractMethods

SpecAbstract == InitAbstract /\ [][NextAbstract]_vars

(* _init_protocol_attributes of one class. *)
InitProtocol ==
  /\ call_args \in [fn : {"_init_protocol_attributes"},
                    self : {c \in ProtocolClasses :
                              (c.abstract_methods # {} => c.typing_pytd)
                              /\ c.abstract_methods \subseteq c.mro[1].attrs}]
  /\ call_done = FALSE /\ call_ret = NoCall
  /\ ViewIdle /\ MutIdle /\ TypeIdle /\ FormalIdle /\ LoadIdle /\ DecoIdle

NextProtocol == InitProtocolAttributes

SpecProtocol == InitProtocol /\ [][NextProtocol]_vars

(* _init_overrides_bool of one class. *)
InitBool ==
  /\ call_args \in [fn : {"_init_overrides_bool"}, PY3 : BOOLEAN,
                    self : BoolClasses]
  /\ call_done = FALSE /\ call_ret = NoCall
  /\ ViewIdle /\ MutIdle /\ TypeIdle /\ FormalIdle /\ LoadIdle /\ DecoIdle

NextBool == InitOverridesBool

SpecBool == InitBool /\ [][NextBool]_vars

(* One Decorator and the calls made of it. *)
InitDeco ==
  /\ DecoIdle
  /\ ViewIdle /\ MutIdle /\ TypeIdle /\ FormalIdle /\ LoadIdle /\ CallIdle

NextDeco == CallWithoutPosargs \/ CallOnNonClass \/ CallOnClass

SpecDeco == InitDeco /\ [][NextDeco]_vars

(* get_class_locals of one class. *)
InitLocals ==
  /\ call_args \in [fn : {"get_class_locals"}, allow_methods : BOOLEAN,
                    ordering : {"FIRST_ANNOTATE", "LAST_ASSIGN"},
                    vm : {v \in [known : BOOLEAN,
                                 ops : SeqsUpTo(LocalOps, MaxOps),
                                 methods : {{}, {<<"y">>}}] :
                            ~v.known => v.ops = <<>> /\ v.methods = {}}]
  /\ call_done = FALSE /\ call_ret = NoCall
  /\ ViewIdle /\ MutIdle /\ TypeIdle /\ FormalIdle /\ LoadIdle /\ DecoIdle

NextLocals == GetClassLocals

SpecLocals == InitLocals /\ [][NextLocals]_vars

(* _get_attrs_from_mro of one class. *)
InitAttrs ==
  /\ call_args \in [fn : {"_get_attrs_from_mro"},
                    bases : SeqsUpTo(BaseClassEntries, MaxBaseClasses),
                    cls_attrs : AttrLists,
                    metadata_key : {"__attrs_attrs__", "__dataclass_fields__"}]
  /\ call_done = FALSE /\ call_ret = NoCall
  /\ ViewIdle /\ MutIdle /\ TypeIdle /\ FormalIdle /\ LoadIdle /\ DecoIdle

NextAttrs == GetAttrsFromMro

SpecAttrs == InitAttrs /\ [][NextAttrs]_vars

(* ------------------------------ claims --------------------------------- *)
(* The size of the Cartesian product of the Variables' binding lists. *)
RECURSIVE ProductSize(_, _)
ProductSize(vs, bs) ==
  IF vs = <<>> THEN 1 ELSE Len(bs[Head(vs)]) * ProductSize(Tail(vs), bs)

(* deep_variable_product raises TooComplexError for the given Variables.   *)
(* (Stable: the fallback only adds Bindings.)                              *)
TooComplex == ProductSize(variables, bindings) > limit

(* Every choice of one Binding per Variable. *)
Choices(vs, bs) ==
  {f \in [Range(vs) -> UNION {Range(bs[v]) : v \in Range(vs)}] :
     \A v \in Range(vs) : f[v] \in Range(bs[v])}

WildcardView == [v \in Range(variables) |-> Binding(v, DefaultData)]

(* The combinations get_views has to consider: the product of the          *)
(* Variables' Bindings, or the one wildcard combination of the fallback.   *)
CandidateViews ==
  IF TooComplex THEN {WildcardView} ELSE Choices(variables, bindings)

BindingsOfView(f) == {f[v] : v \in DOMAIN f}

Reachable(f) == BindingsOfView(f) \notin unreachable

ReachableViews == {f \in CandidateViews : Reachable(f)}

NoDuplicates(s) == \A i, j \in 1..Len(s) : s[i] = s[j] => i = j

(* s <= f.items() *)
Matches(s, f) == \A k \in DOMAIN s : k \in DOMAIN f /\ f[k] = s[k]

NeverSkipped(g) == seen[g] = <<>>

Finished(g) == g \in gens /\ pc[g] = "done"

(* C1: a get_views run whose consumer never skips yields exactly one View  *)
(* per combination that CanHaveCombination accepts and nothing else; with  *)
(* 2 and 3 Bindings that is 6 Views when nothing is rejected and 5 when    *)
(* exactly one combination is.                                             *)
C1_OneViewPerReachableCombination ==
  \A g \in gens :
    (Finished(g) /\ NeverSkipped(g)) =>
      /\ Range(yielded[g]) = ReachableViews
      /\ NoDuplicates(yielded[g])
      /\ ( /\ Len(variables) = 2
           /\ Len(bindings[1]) = 2 /\ Len(bindings[2]) = 3
           /\ ~TooComplex ) =>
             /\ unreachable = {} => Len(yielded[g]) = 6
             /\ Cardinality(unreachable) = 1 => Len(yielded[g]) = 5

C1_Witness ==
  /\ Finished(1) /\ NeverSkipped(1) /\ ~TooComplex
  /\ Len(variables) = 2 /\ Len(bindings[1]) = 2 /\ Len(bindings[2]) = 3
  /\ Cardinality(unreachable) = 1
  /\ Len(yielded[1]) = 5

(* The consumer of g read only Variable x from every View and always       *)
(* resumed with skip_future true.                                          *)
AlwaysSkippedReading(g, x) ==
  /\ Len(seen[g]) = Len(yielded[g])
  /\ \A n \in 1..Len(seen[g]) : DOMAIN seen[g][n] = {x}

ReachableBindingsOf(x) == {f[x] : f \in ReachableViews}

(* C2: a consumer that reads only Variable x and always skips observes as  *)
(* many Views as x has Bindings occurring in a reachable combination.      *)
C2_SkipGivesOneViewPerBinding ==
  \A g \in gens : \A x \in Range(variables) :
    (Finished(g) /\ AlwaysSkippedReading(g, x)) =>
      Len(yielded[g]) = Cardinality(ReachableBindingsOf(x))

C2_Witness ==
  /\ Finished(1) /\ AlwaysSkippedReading(1, 1)
  /\ Len(variables) = 2 /\ Len(bindings[2]) >= 2
  /\ Len(yielded[1]) = 2
  /\ Cardinality(ReachableViews) > 2
  /\ unreachable # {}

(* C3: every yielded View gives each of the Variables exactly one Binding, *)
(* a Binding of the Variable it is keyed by.                               *)
C3_ViewSelectsOwnBinding ==
  \A g \in gens : \A n \in 1..Len(yielded[g]) :
    /\ DOMAIN yielded[g][n] = Range(variables)
    /\ \A v \in DOMAIN yielded[g][n] :
         /\ yielded[g][n][v].variable = v
         /\ yielded[g][n][v] \in Range(bindings[v])

C3_Witness ==
  /\ pc[1] = "yielded" /\ Len(variables) = 2
  /\ Len(yielded[1]) >= 2
  /\ view[1][1] # view[1][2]

(* C4: at every moment, each View handed out so far was passed to          *)
(* CanHaveCombination, which returned true for it.                         *)
C4_YieldedViewsWereValidated ==
  \A g \in gens : \A n \in 1..Len(yielded[g]) :
    \E q \in 1..Len(queried[g]) :
      /\ queried[g][q].result
      /\ Range(queried[g][q].combination) = BindingsOfView(yielded[g][n])
      /\ Len(queried[g][q].combination) = Cardinality(DOMAIN yielded[g][n])
      /\ Reachable(yielded[g][n])

C4_Witness ==
  /\ pc[1] = "yielded" /\ Len(yielded[1]) = 2
  /\ idx[1] < NumRows(combinations[1])
  /\ \E q \in 1..Len(queried[1]) : ~queried[1][q].result

(* The combination invocation g is about to process contains a subset      *)
(* committed by an earlier skip decision.                                  *)
AtCommittedSuperset(g) ==
  /\ InLoop(g)
  /\ \E n \in 1..Len(seen[g]) :
       Matches(seen[g][n], View(Row(combinations[g], idx[g], variables)))

(* C5: a combination that contains a committed accessed subset is dropped  *)
(* without a CanHaveCombination call and without a yield.                  *)
C5_SkipTestPrecedesQuery ==
  [][\A g \in gens :
       (AtCommittedSuperset(g) /\ idx'[g] # idx[g]) =>
         /\ queried'[g] = queried[g]
         /\ yielded'[g] = yielded[g]
         /\ pc'[g] = "loop"
         /\ idx'[g] = idx[g] + 1]_vars

C5_Witness ==
  /\ Len(skipped[1]) >= 2
  /\ \E i \in 1..Len(skipped[1]) : ~CanHaveCombination(skipped[1][i])
  /\ \E i \in 1..Len(skipped[1]) : CanHaveCombination(skipped[1][i])

(* C6: when the product raises TooComplexError nothing is raised to the    *)
(* caller; exactly one combination is processed, one wildcard Binding per  *)
(* Variable, each a Binding of its Variable; at most one View is yielded.  *)
C6_TooComplexFallback ==
  \A g \in gens :
    TooComplex =>
      /\ pc[g] # "raised"
      /\ Len(yielded[g]) <= 1
      /\ Finished(g) =>
           /\ Len(queried[g]) = 1
           /\ queried[g][1].combination =
                [i \in 1..Len(variables) |-> Binding(variables[i], DefaultData)]
           /\ \A b \in Range(queried[g][1].combination) :
                b \in Range(bindings[b.variable])
           /\ skipped[g] = <<>>
           /\ yielded[g] = IF Reachable(WildcardView) THEN <<WildcardView>>
                           ELSE <<>>

C6_Witness ==
  /\ TooComplex /\ Finished(1)
  /\ Len(variables) = 2
  /\ yielded[1] = <<WildcardView>>

C8_SeenIsPerInvocation ==
  \A g \in gens :
    Finished(g) =>
      /\ NoDuplicates(yielded[g])
      /\ Range(yielded[g]) \subseteq ReachableViews
      /\ \A f \in ReachableViews :
           (\A n \in 1..Len(seen[g]) : ~Matches(seen[g][n], f)) =>
             f \in Range(yielded[g])

C8_Witness ==
  /\ Finished(1) /\ Finished(2)
  /\ NeverSkipped(1) /\ seen[2] # <<>>
  /\ Len(yielded[1]) > Len(yielded[2])
  /\ \E i \in 1..Len(yielded[1]) : \E n \in 1..Len(seen[2]) :
       Matches(seen[2][n], yielded[1][i])

ConnectNewEvents == SelectSeq(events, LAMBDA e : e.op = "ConnectNew")

(* Nodes are only ever appended, so the Nodes that existed at the call are *)
(* those no ConnectNew event created.                                      *)
CreatedNodes == {events[i].result : i \in {j \in 1..Len(events) :
                                            events[j].op = "ConnectNew"}}

(* C9: an empty batch makes no ConnectNew call and returns the given Node. *)
C9_EmptyBatchReturnsSameNode ==
  (mpc = "returned" /\ mutations = <<>>) =>
    /\ ConnectNewEvents = <<>>
    /\ events = <<>>
    /\ retval = argNode
    /\ CreatedNodes = {}
    /\ \A i \in 1..Len(nodes) : nodes[i] = [name |-> i, parent |-> i - 1]

C9_Witness ==
  mpc = "returned" /\ mutations = <<>> /\ retval = argNode /\ Len(nodes) = 2

(* C10: a batch of n >= 1 mutations makes exactly one ConnectNew call, on  *)
(* the given Node and before the first mutation is applied; every mutation *)
(* is applied against the Node it created, in batch order, and that Node   *)
(* is returned.                                                            *)
C10_OneNewNodePerBatch ==
  (mi >= 1) =>
    LET new == events[1].result
    IN /\ events[1] = ConnectNewEvent(argNode, new)
       /\ new = Len(nodes)
       /\ new \notin {argNode} \cup {nodes[i].parent : i \in 1..Len(nodes)}
       /\ nodes[new] = [name |-> nodes[argNode].name, parent |-> argNode]
       /\ Len(ConnectNewEvents) = 1
       /\ Tail(events) = [i \in 1..mi |-> MergeEvent(new, mutations[i])]
       /\ node = new
       /\ mpc = "returned" =>
            /\ mi = Len(mutations)
            /\ retval = new

C10_Witness ==
  /\ mpc = "returned" /\ Len(mutations) = 3
  /\ mutations[1] # mutations[2]
  /\ retval = Len(nodes) /\ retval # argNode

(* ------------------------------ compute_mro ---------------------------- *)
Keys(seq) == [k \in 1..Len(seq) |-> MergeKey(seq[k])]

RECURSIVE IsSubsequence(_, _)
IsSubsequence(a, b) ==
  IF a = <<>> THEN TRUE
  ELSE IF b = <<>> THEN FALSE
  ELSE IF a[1] = b[1] THEN IsSubsequence(Tail(a), Tail(b))
  ELSE IsSubsequence(a, Tail(b))

NoRepeats(seq) == \A i, j \in 1..Len(seq) : seq[i] = seq[j] => i = j

(* The class of the last class statement; every class is, in the state    *)
(* its statement leaves.                                                   *)
JustDefined == {i \in 1..Len(classes) : i = Len(classes)}

(* The bases class i resolved, and the orders its linearization must       *)
(* respect: itself first, each base's linearization, the declared order.   *)
ResolvedBases(i) == get_mro_bases(classes[i].bases)

Orders(i) ==
  << <<Cls(classes[i].name)>> >>
  \o [k \in 1..Len(ResolvedBases(i)) |-> Keys(MroOf(classes, ResolvedBases(i)[k]))]
  \o << Keys(ResolvedBases(i)) >>

(* The pairs (x, y) with x before y in some row. *)
Precedes(rows) ==
  UNION {UNION {{<<rows[r][i], rows[r][j]>> : j \in (i+1)..Len(rows[r])}
                : i \in 1..Len(rows[r])}
         : r \in 1..Len(rows)}

(* The orders contradict each other: some classes each have to come after  *)
(* another one of them.                                                    *)
Conflicting(rows) ==
  LET before == Precedes(rows)
  IN \E S \in SUBSET Range(Concat(rows)) :
       /\ S # {}
       /\ \A y \in S : \E x \in S : <<x, y>> \in before

(* C11: without conflicting base orders compute_mro of the class just      *)
(* defined succeeds and lists the                                          *)
(* class first, keeps every resolved base's linearization as an            *)
(* order-preserving subsequence, keeps the declared order of the bases,    *)
(* and lists no class twice (classes compared as the merge compares them,  *)
(* a ParameterizedClass as the class it wraps).                            *)
C11_MroIsSoundLinearization ==
  \A i \in JustDefined :
    ~Conflicting(Orders(i)) =>
      LET m == classes[i].mro
      IN /\ ~classes[i].failed
         /\ m[1] = Cls(classes[i].name)
         /\ \A k \in 1..Len(ResolvedBases(i)) :
              IsSubsequence(Keys(MroOf(classes, ResolvedBases(i)[k])), Keys(m))
         /\ IsSubsequence(Keys(ResolvedBases(i)), Keys(m))
         /\ NoRepeats(Keys(m))
         /\ Range(Keys(m)) = Range(Concat(Orders(i)))

C11_Witness ==
  \E i \in 1..Len(classes) :
    /\ ~classes[i].failed
    /\ Len(classes[i].bases) = 2
    /\ Len(classes[i].mro) = 4
    /\ \A k \in 1..2 : Len(MroOf(classes, ResolvedBases(i)[k])) = 2

(* The hierarchy X, Y, A(X, Y), B(Y, X), C(A, B). *)
ContradictoryExample ==
  /\ Len(classes) >= 5
  /\ classes[1].name = "X" /\ classes[1].bases = <<>>
  /\ classes[2].name = "Y" /\ classes[2].bases = <<>>
  /\ classes[3].name = "A" /\ classes[3].bases = << <<Cls("X")>>, <<Cls("Y")>> >>
  /\ classes[4].name = "B" /\ classes[4].bases = << <<Cls("Y")>>, <<Cls("X")>> >>
  /\ classes[5].name = "C" /\ classes[5].bases = << <<Cls("A")>>, <<Cls("B")>> >>

(* C12: compute_mro fails exactly for the classes whose bases impose       *)
(* contradictory orders, as C(A, B) over A(X, Y) and B(Y, X) does, and a   *)
(* failed class has no linearization.                                      *)
C12_ContradictoryOrdersFail ==
  /\ \A i \in JustDefined :
       /\ classes[i].failed <=> Conflicting(Orders(i))
       /\ classes[i].failed => classes[i].mro = <<>>
  /\ ContradictoryExample =>
       /\ ~classes[3].failed /\ classes[3].mro = <<Cls("A"), Cls("X"), Cls("Y")>>
       /\ ~classes[4].failed /\ classes[4].mro = <<Cls("B"), Cls("Y"), Cls("X")>>
       /\ classes[5].failed

C12_Witness == ContradictoryExample /\ classes[5].failed

(* The identities class i's merge input holds for the class `key`, in the  *)
(* order the rows are scanned.                                             *)
IdentitiesOf(i, key) ==
  SelectSeq(Concat(MroRows(classes, Cls(classes[i].name), ResolvedBases(i))),
            LAMBDA v : MergeKey(v) = key)

(* C13 as stated: the linearization keeps, for every class, the first      *)
(* identity the scan of the merge lists meets.                             *)
C13_FirstAssociationWins ==
  \A i \in JustDefined :
    ~classes[i].failed =>
      \A k \in 1..Len(classes[i].mro) :
        classes[i].mro[k] = IdentitiesOf(i, MergeKey(classes[i].mro[k]))[1]

(* C13: the linearization keeps, for every class, the last identity the    *)
(* scan of the merge lists meets: a directly declared base keeps the       *)
(* identity of the class statement, whatever the bases' linearizations     *)
(* call it.                                                                *)
C13_LastAssociationWins ==
  \A i \in JustDefined :
    ~classes[i].failed =>
      /\ \A k \in 1..Len(classes[i].mro) :
           LET ids == IdentitiesOf(i, MergeKey(classes[i].mro[k]))
           IN classes[i].mro[k] = ids[Len(ids)]
      /\ \A k \in 1..Len(ResolvedBases(i)) :
           \E j \in 1..Len(classes[i].mro) :
             classes[i].mro[j] = ResolvedBases(i)[k]

C13_Witness ==
  \E i \in 1..Len(classes) :
    /\ ~classes[i].failed
    /\ \E k \in 1..Len(classes[i].mro) :
         LET ids == IdentitiesOf(i, MergeKey(classes[i].mro[k]))
         IN /\ Len(ids) >= 2
            /\ ids[1] # ids[Len(ids)]
            /\ classes[i].mro[k] = ids[Len(ids)]

(* ------------------------------ get_mro_bases -------------------------- *)
(* The base Variables that hold a value, in declaration order. *)
WithValue == SelectSeq(base_vars, LAMBDA base_var : base_var # <<>>)

(* Whether some base resolved to a ParameterizedClass other than           *)
(* typing.Generic, read off the Variables with a single value.             *)
SomeUserGeneric ==
  \E i \in 1..Len(WithValue) :
    /\ Len(WithValue[i]) = 1
    /\ WithValue[i][1].kind = "parameterized"
    /\ WithValue[i][1].name # "typing.Generic"

(* C14 as stated: a base whose Variable holds several candidates resolves  *)
(* to one of them, the same one on every call.                             *)
C14_AmbiguousBaseResolvesToCandidate ==
  \A c \in 1..Len(resolved) :
    /\ resolved[c] = resolved[1]
    /\ ~SomeUserGeneric =>
         /\ Len(resolved[c]) = Len(WithValue)
         /\ \A i \in 1..Len(WithValue) :
              Len(WithValue[i]) > 1 => resolved[c][i] \in Range(WithValue[i])

(* What get_mro_bases does with such a base: it resolves to                *)
(* vm.convert.unsolvable, which is none of the candidates.                 *)
C14_AmbiguousBaseIsUnsolvable ==
  \A c \in 1..Len(resolved) :
    /\ resolved[c] = resolved[1]
    /\ ~SomeUserGeneric =>
         /\ Len(resolved[c]) = Len(WithValue)
         /\ \A i \in 1..Len(WithValue) :
              Len(WithValue[i]) > 1 =>
                /\ resolved[c][i] = Unsolvable
                /\ resolved[c][i] \notin Range(WithValue[i])

C14_Witness ==
  /\ Len(resolved) = 2
  /\ \E i \in 1..Len(base_vars) : Len(base_vars[i]) > 1

(* typing.Generic, plain or with parameters. *)
IsGenericMarker(v) == v.name = "typing.Generic"

(* C15: get_mro_bases returns one resolved base per base Variable that has *)
(* a value, in declaration order; the bases named typing.Generic are all   *)
(* removed when some resolved base other than typing.Generic is a          *)
(* ParameterizedClass, and otherwise nothing is removed.                   *)
C15_GenericDroppedIffUserGeneric ==
  \A c \in 1..Len(resolved) :
    LET all == [i \in 1..Len(WithValue) |->
                  IF Len(WithValue[i]) = 1 THEN WithValue[i][1] ELSE Unsolvable]
        out == resolved[c]
    IN /\ IsSubsequence(out, all)
       /\ \A i \in 1..Len(all) :
            ~IsGenericMarker(all[i]) => \E k \in 1..Len(out) : out[k] = all[i]
       /\ Len(out) = Cardinality({i \in 1..Len(all) :
                                    SomeUserGeneric => ~IsGenericMarker(all[i])})
       /\ SomeUserGeneric <=>
            /\ \E i \in 1..Len(all) : all[i].kind = "parameterized"
                                      /\ ~IsGenericMarker(all[i])
       /\ SomeUserGeneric => \A k \in 1..Len(out) : ~IsGenericMarker(out[k])
       /\ ~SomeUserGeneric => out = all

C15_Witness ==
  /\ resolved # <<>>
  /\ SomeUserGeneric
  /\ \E i \in 1..Len(base_vars) : base_vars[i] = <<PyTDCls("typing.Generic")>>
  /\ \E i \in 1..Len(base_vars) : base_vars[i] = <<>>
  /\ Len(resolved[1]) = 1

(* ------------------------- formal type parameters --------------------- *)
IsPlaceholder(t) == t = None \/ t = Unsolvable

(* What _merge_type can be handed. *)
Operands == {None, Unsolvable} \cup {PyTDCls(n) : n \in TypeNames}

(* a is b or derives from b. *)
SubclassOf(a, b) ==
  \/ a = b
  \/ b.name = "object"
  \/ a.name = "bool" /\ b.name = "int"

(* C16: merging with the placeholder (None or Unsolvable) succeeds with    *)
(* the other operand, whichever side the placeholder is on, in every       *)
(* merge the parse makes and for every pair of operands; of two            *)
(* placeholders the second is returned.                                    *)
C16_PlaceholderYieldsOtherOperand ==
  /\ \A k \in 1..Len(merges) :
       LET m == merges[k]
       IN /\ IsPlaceholder(m.t0) => m.ok /\ m.result = m.t1
          /\ (IsPlaceholder(m.t1) /\ ~IsPlaceholder(m.t0)) =>
               m.ok /\ m.result = m.t0
  /\ \A p \in {None, Unsolvable} : \A t \in Operands \ {None, Unsolvable} :
       /\ _merge_type(p, t) = [ok |-> TRUE, type |-> t]
       /\ _merge_type(t, p) = [ok |-> TRUE, type |-> t]
  /\ \A p, q \in {None, Unsolvable} :
       _merge_type(p, q) = [ok |-> TRUE, type |-> q]

C16_Witness ==
  /\ Len(merges) = 2
  /\ merges[1].t0 = None /\ merges[1].t1 \notin {None, Unsolvable}
  /\ merges[2].t1 = Unsolvable /\ merges[2].result = merges[1].t1
  /\ ftp["List.T"] = merges[1].t1

(* The type a base binds a type parameter to, if it binds one to a type.   *)
ConcreteBinding(base) ==
  IF base.kind = "parameterized" /\ base.arg # "Any"
  THEN {<<full_type_name(base, "T"), PyTDCls(base.arg)>>}
  ELSE IF base = Cls("IntList") THEN {<<"List.T", PyTDCls("int")>>}
  ELSE {}

(* Two bases bind the same type parameter to unrelated types. *)
Clash(b1, b2) ==
  \E x \in ConcreteBinding(b1) : \E y \in ConcreteBinding(b2) :
    /\ x[1] = y[1]
    /\ ~SubclassOf(x[2], y[2])
    /\ ~SubclassOf(y[2], x[2])

(* C17: a merge of two types yields the subclass when one derives from the *)
(* other, in either operand order, and raises GenericTypeError otherwise;  *)
(* the parse of the bases fails exactly when two of the bases parsed bind  *)
(* the same type parameter to unrelated types.                             *)
C17_MoreSpecificWinsOrConflict ==
  /\ \A k \in 1..Len(merges) :
       LET m == merges[k]
       IN (~IsPlaceholder(m.t0) /\ ~IsPlaceholder(m.t1)) =>
            /\ SubclassOf(m.t0, m.t1) => m.ok /\ m.result = m.t0
            /\ SubclassOf(m.t1, m.t0) => m.ok /\ m.result = m.t1
            /\ m.ok <=> (SubclassOf(m.t0, m.t1) \/ SubclassOf(m.t1, m.t0))
            /\ ~m.ok => ferror /\ k = Len(merges)
  /\ \A a, b \in Operands \ {None, Unsolvable} :
       /\ _merge_type(a, b) = _merge_type(b, a)
       /\ SubclassOf(a, b) => _merge_type(a, b) = [ok |-> TRUE, type |-> a]
  /\ ferror <=> \E i, j \in 1..fi : i < j /\ Clash(fbases[i], fbases[j])
  /\ ferror => \E i \in 1..(fi - 1) : Clash(fbases[i], fbases[fi])

C17_Witness ==
  /\ ferror
  /\ fbases = <<Parameterized("List", "int"), Parameterized("List", "bool"),
                Parameterized("List", "str")>>
  /\ Len(merges) = 2
  /\ merges[1].result = PyTDCls("bool")
  /\ ~merges[2].ok
  /\ ftp["List.T"] = PyTDCls("bool")

(* ------------------------------ compute_template ---------------------- *)
IsGeneric(base) == base.name = "typing.Generic"

GenericBases == SelectSeq(tbases, IsGeneric)

(* The type variables a parameter of a base uses. *)
TypeVarsIn(param) ==
  IF param \in TypeVars THEN {param}
  ELSE IF param = "List[V]" THEN {"V"}
  ELSE {}

(* The type variables the parameterized bases other than Generic use. *)
UsedByOtherBases ==
  UNION {TypeVarsIn(tbases[k].params[i]) :
           k \in {j \in 1..Len(tbases) : ~IsGeneric(tbases[j])
                                         /\ tbases[j].kind = "parameterized"},
           i \in 1..2}

(* The type parameters of C named by these type variables, in order. *)
Namespaced(ps) == [i \in 1..Len(ps) |-> [name |-> ps[i], module |-> "C"]]

(* C18 as stated: with one Generic[...] base the template is that base's   *)
(* parameter list, namespaced to the class, when it holds every type       *)
(* variable the other parameterized bases use, and GenericTypeError is     *)
(* raised when it misses one.                                              *)
C18_GenericListsEveryTypeVariable ==
  (tdone /\ Len(GenericBases) = 1 /\ GenericBases[1].kind = "parameterized") =>
    LET listed == GenericBases[1].params
    IN IF UsedByOtherBases \subseteq Range(listed)
       THEN tresult.ok /\ tresult.template = Namespaced(listed)
       ELSE ~tresult.ok

(* What compute_template checks: only the parameters that are themselves   *)
(* type variables, and only against a Generic[...] that lists at least one.*)
C18_ChecksDirectTypeVariables ==
  (tdone /\ Len(GenericBases) = 1 /\ GenericBases[1].kind = "parameterized"
         /\ GenericBases[1].params # <<>>) =>
    LET listed == GenericBases[1].params
        direct == {v \in TypeVars :
                     \E k \in 1..Len(tbases) :
                       /\ ~IsGeneric(tbases[k])
                       /\ v \in Range(tbases[k].params)}
    IN IF direct \subseteq Range(listed)
       THEN tresult.ok /\ tresult.template = Namespaced(listed)
       ELSE tresult = GenericTypeError(
                        "Generic should contain all the type variables")

C18_Witness ==
  /\ tdone
  /\ tbases = <<Base("parameterized", "typing.Generic", <<"T">>),
                Base("parameterized", "Foo", <<"T", "List[V]">>)>>
  /\ tresult.ok
  /\ tresult.template = Namespaced(<<"T">>)

(* C19 as stated: a class with typing.Generic among its bases more than    *)
(* once, or with plain Generic among them, gets GenericTypeError and no    *)
(* template.                                                               *)
C19_RepeatedOrPlainGenericRaises ==
  (tdone /\ (Len(GenericBases) > 1
             \/ \E k \in 1..Len(tbases) : tbases[k].kind = "pytd")) =>
    ~tresult.ok /\ tresult.template = <<>>

C19_Witness ==
  /\ tdone
  /\ tbases = <<Base("parameterized", "typing.Generic", <<>>),
                Base("parameterized", "typing.Generic", <<"T">>)>>
  /\ tresult.ok
  /\ tresult.template = Namespaced(<<"T">>)

(* --------------------------- build_generic_template ------------------- *)
NotAllTypeVariables == \E i \in 1..Len(type_params) : type_params[i] \notin TypeVars

RepeatedTypeVariable ==
  \E i, j \in 1..Len(type_params) :
    i # j /\ type_params[i] = type_params[j] /\ type_params[i] \in TypeVars

Reported(msg) == \E k \in 1..Len(gresult.errors) : gresult.errors[k] = msg

(* C20 as stated: the template built for Generic[...] holds only type      *)
(* variables, none of them twice, and a parameter that is not a type       *)
(* variable or a repeated name is reported.                                *)
C20_TemplateOfUniqueTypeVariables ==
  gdone =>
    /\ \A i \in 1..Len(gresult.template) : gresult.template[i] \in TypeVars
    /\ NoRepeats(gresult.template)
    /\ NotAllTypeVariables =>
         Reported("Parameters to Generic[...] must all be type variables")
    /\ RepeatedTypeVariable =>
         Reported("Parameters to Generic[...] must all be unique")

(* What build_generic_template returns: the type variables written, in     *)
(* order and as often as written; both errors are reported, and only the   *)
(* parameters that are not type variables are removed.                     *)
C20_RepeatedNamesReportedButKept ==
  gdone =>
    /\ gresult.template = SelectSeq(type_params, LAMBDA p : p \in TypeVars)
    /\ gresult.type_params = gresult.template
    /\ NotAllTypeVariables <=>
         Reported("Parameters to Generic[...] must all be type variables")
    /\ RepeatedTypeVariable <=>
         Reported("Parameters to Generic[...] must all be unique")
    /\ RepeatedTypeVariable <=> ~NoRepeats(gresult.template)

C20_Witness ==
  /\ gdone
  /\ type_params = <<"T", "int", "T">>
  /\ gresult.template = <<"T", "T">>
  /\ Len(gresult.errors) = 2

(* --------------------- Class.all_formal_type_parameters ---------------- *)
(* C21 as stated: every access after the first parses no base and returns *)
(* the map the first access returned.                                      *)
C21_FoldedOnFirstAccessOnly ==
  \A k \in 2..Len(accesses) :
    /\ accesses[k].parsed = 0
    /\ accesses[k].ok
    /\ accesses[k].ftp = accesses[1].ftp

(* C21: after a load that completed, no base is parsed    *)
(* again and the same map is returned; a load that GenericTypeError left   *)
(* is started again by the next access, which fails again and leaves the   *)
(* map as it was.                                                          *)
C21_ReloadedAfterError ==
  \A k \in 2..Len(accesses) :
    IF accesses[1].ok
    THEN accesses[k] = [ok |-> TRUE, ftp |-> accesses[1].ftp, parsed |-> 0]
    ELSE /\ ~accesses[k].ok
         /\ accesses[k].parsed > 0
         /\ accesses[k].ftp = accesses[1].ftp

C21_Witness ==
  /\ Len(accesses) = 2
  /\ ~accesses[1].ok
  /\ accesses[2].parsed = Len(fbases)
  /\ Len(fbases) = 2

(* The full names of the type parameters of a base's template. *)
TemplateNames(base) ==
  {full_type_name(base, TemplateOf(base.name)[i]) :
     i \in 1..Len(TemplateOf(base.name))}

(* C22: parsing a non-parameterized base merges the base's own map into    *)
(* the map and then records as unbound (None) exactly the type parameters  *)
(* of the base's template that have no entry yet; an entry the map already *)
(* has is kept, or merged with the base's own entry for the name.          *)
C22_UnboundMarkerNeverOverwrites ==
  [][(fi' = fi + 1 /\ fbases[fi'].kind = "class" /\ ~ferror') =>
       LET base == fbases[fi']
           own == all_formal_type_parameters(base)
       IN /\ DOMAIN ftp' = DOMAIN ftp \cup DOMAIN own \cup TemplateNames(base)
          /\ \A n \in DOMAIN ftp' :
               ftp'[n] =
                 IF n \in DOMAIN ftp /\ n \in DOMAIN own
                 THEN _merge_type(ftp[n], own[n]).type
                 ELSE IF n \in DOMAIN ftp THEN ftp[n]
                 ELSE IF n \in DOMAIN own THEN own[n]
                 ELSE None
          /\ \A n \in TemplateNames(base) \cap DOMAIN ftp :
               n \notin DOMAIN own => ftp'[n] = ftp[n]]_vars

C22_Witness ==
  /\ fi = 2 /\ ~ferror
  /\ fbases[1] = Parameterized("List", "int")
  /\ fbases[2] = Cls("List")
  /\ ftp = [n \in {"List.T"} |-> PyTDCls("int")]

(* ------------------------------ combine_substs ------------------------- *)
IsEmptyOrNone(substs) == substs.is_none \/ Len(substs.items) = 0

(* C23: combine_substs of two non-empty collections returns one dictionary *)
(* per pair, the pairs in s1-major order, each with the keys of both       *)
(* dictionaries and the second one's value on a shared key; with one       *)
(* operand empty or None it returns the other operand, and with both empty *)
(* or None it returns the empty tuple.                                     *)
C23_CombineIsCrossJoin ==
  call_done =>
    LET s1 == call_args.substs1
        s2 == call_args.substs2
    IN /\ (~IsEmptyOrNone(s1) /\ ~IsEmptyOrNone(s2)) =>
            /\ ~call_ret.is_none
            /\ Len(call_ret.items) = Len(s1.items) * Len(s2.items)
            /\ \A i \in 1..Len(s1.items) : \A j \in 1..Len(s2.items) :
                 LET d == call_ret.items[(i - 1) * Len(s2.items) + j]
                     d1 == s1.items[i]
                     d2 == s2.items[j]
                 IN /\ DOMAIN d = DOMAIN d1 \cup DOMAIN d2
                    /\ \A k \in DOMAIN d2 : d[k] = d2[k]
                    /\ \A k \in DOMAIN d1 \ DOMAIN d2 : d[k] = d1[k]
       /\ (~IsEmptyOrNone(s1) /\ IsEmptyOrNone(s2)) => call_ret = s1
       /\ (IsEmptyOrNone(s1) /\ ~IsEmptyOrNone(s2)) => call_ret = s2
       /\ (IsEmptyOrNone(s1) /\ IsEmptyOrNone(s2)) =>
            ~call_ret.is_none /\ call_ret.items = <<>>

C23_Witness ==
  /\ call_done
  /\ call_args.fn = "combine_substs"
  /\ Len(call_args.substs1.items) = 2
  /\ Len(call_args.substs2.items) = 2
  /\ Len(call_ret.items) = 4
  /\ call_args.substs1.items[2] = [k \in {"T"} |-> "a"]
  /\ call_args.substs2.items[1] = [k \in {"T"} |-> "b"]
  /\ call_ret.items[3] = [k \in {"T"} |-> "b"]

(* ------------------------ Class._init_abstract_methods ----------------- *)
(* One sweep from the most general entry j to the class itself: a name is  *)
(* removed when the class visited declares it without marking it abstract, *)
(* and the class's own abstract methods are added.                         *)
RECURSIVE OneSweep(_, _, _)
OneSweep(mro, j, running) ==
  IF j = 0 THEN running
  ELSE IF ~mro[j].is_class THEN OneSweep(mro, j - 1, running)
  ELSE OneSweep(mro, j - 1,
                (running \ (mro[j].attrs \ mro[j].abstract))
                \cup mro[j].abstract)

(* The most derived class of the mro that declares the name. *)
FirstDeclaring(mro, name) ==
  {i \in 1..Len(mro) :
     /\ mro[i].is_class /\ name \in mro[i].attrs
     /\ \A j \in 1..(i - 1) : ~(mro[j].is_class /\ name \in mro[j].attrs)}

(* C24: the abstract methods of a class are what one sweep over its mro    *)
(* from the most general ancestor to the class leaves: the names whose     *)
(* most derived declaration marks them abstract. Leaf(Mid(Base)) with Mid  *)
(* implementing Base's abstract f has none, Leaf2(Base) has f.             *)
C24_AbstractMethodsAreOneSweep ==
  (call_done /\ call_args.fn = "_init_abstract_methods") =>
    LET mro == call_args.mro
    IN /\ call_ret = OneSweep(mro, Len(mro), {})
       /\ \A n \in MethodNames :
            n \in call_ret <=>
              \E i \in FirstDeclaring(mro, n) : n \in mro[i].abstract
       /\ mro = <<ClassEntry({}, {}), ClassEntry({"f"}, {}),
                  ClassEntry({"f"}, {"f"})>> => call_ret = {}
       /\ mro = <<ClassEntry({}, {}), ClassEntry({"f"}, {"f"})>> =>
            call_ret = {"f"}

C24_Witness ==
  /\ call_done
  /\ call_args.fn = "_init_abstract_methods"
  /\ call_args.mro = <<ClassEntry({}, {}), ClassEntry({"f"}, {}),
                       ClassEntry({"f"}, {"f"})>>
  /\ call_ret = {}

(* ---------------------- Class._init_protocol_attributes ---------------- *)
(* The walk as C25 words it: most general entry first, a protocol          *)
(* ancestor's protocol attributes are unioned in, the attributes a         *)
(* non-protocol ancestor declares are removed, and the class itself counts *)
(* with the attributes it declares.                                        *)
RECURSIVE UnionWalk(_, _, _)
UnionWalk(mro, j, running) ==
  IF j = 0 THEN running
  ELSE IF ~mro[j].is_class THEN UnionWalk(mro, j - 1, running)
  ELSE LET p == IF j = 1 THEN mro[1].attrs ELSE mro[j].protocol
       IN IF p # {} THEN UnionWalk(mro, j - 1, running \cup p)
          ELSE UnionWalk(mro, j - 1, running \ mro[j].attrs)

PutsIn(mro, i, a) ==
  /\ mro[i].is_class /\ a \in mro[i].attrs
  /\ IF i = 1 THEN TRUE ELSE a \in mro[i].protocol

(* Entry i takes the attribute out: it is no protocol and declares it. *)
TakesOut(mro, i, a) ==
  /\ mro[i].is_class /\ a \in mro[i].attrs
  /\ IF i = 1 THEN FALSE ELSE mro[i].protocol = {}

DecidingMro ==
  IF call_args.self.parameterized THEN call_args.self.base_cls.mro
  ELSE call_args.self.mro

(* C26: overrides_bool is true exactly when some class of the              *)
(* linearization declares __len__ or the truthiness method of the Python   *)
(* version (__bool__ for 3, __nonzero__ for 2); a ParameterizedClass has   *)
(* the flag of the class it wraps.                                         *)
C26_OverridesBoolIffDeclared ==
  (call_done /\ call_args.fn = "_init_overrides_bool") =>
    /\ call_ret.overrides_bool <=>
         \E i \in 1..Len(DecidingMro) :
           /\ DecidingMro[i].is_class
           /\ \/ "__len__" \in DecidingMro[i].attrs
              \/ call_args.PY3 /\ "__bool__" \in DecidingMro[i].attrs
              \/ ~call_args.PY3 /\ "__nonzero__" \in DecidingMro[i].attrs
    /\ call_args.self.parameterized =>
         call_ret.overrides_bool =
           overrides_bool(call_args.PY3, call_args.self.base_cls)

(* Under Python 2 an ancestor declaring __nonzero__ sets the flag. *)
C26_Witness ==
  /\ call_done
  /\ call_args.fn = "_init_overrides_bool"
  /\ ~call_args.PY3 /\ ~call_args.self.parameterized
  /\ Len(call_args.self.mro) = 3
  /\ call_args.self.mro[1].attrs = {"f"}
  /\ call_args.self.mro[2].attrs = {"__bool__"}
  /\ call_args.self.mro[3].attrs = {"__nonzero__"}
  /\ call_ret.overrides_bool

(* --------------------------- classgen.Decorator ------------------------- *)
(* The keyword arguments of the decorator use that call k completes:       *)
(* those of the call that created the decorator when call k-1 had no       *)
(* posargs, else its own.                                                  *)
UseArgs(k) ==
  update_kwargs(IF k > 1 /\ calls[k - 1].posarg = "none"
                THEN calls[k - 1].namedargs ELSE calls[k].namedargs)

(* C27 as stated: after a call with a positional argument _current_args is *)
(* None, and the class it decorated has the arguments of the decorator use *)
(* that decorated it, never those of an earlier use.                       *)
C27_ArgsBelongToDecoratingUse ==
  calls # <<>> =>
    LET k == Len(calls)
    IN /\ calls[k].posarg # "none" => _current_args = None
       /\ calls[k].posarg \in DecoClasses =>
            args[calls[k].posarg] = UseArgs(k)

(* decorator(init=False) applied to a value that is no class, then a bare  *)
(* @decorator on B: B is recorded with init False.                         *)
C27_Witness ==
  /\ Len(calls) = 2
  /\ calls[1] = [namedargs |-> [init |-> "False"], posarg |-> "Unsolvable",
                 errors |-> {}]
  /\ calls[2].namedargs = [k \in {} |-> "True"] /\ calls[2].posarg = "B"
  /\ args["B"].init = "False"
  /\ _current_args = None

(* ------------------------- classgen.get_class_locals -------------------- *)
(* The places of the ops of one kind that name n. *)
OpsOf(n, kind) ==
  {i \in 1..Len(call_args.vm.ops) :
     call_args.vm.ops[i].name = n /\ call_args.vm.ops[i].kind = kind}

EarliestOf(S) == CHOOSE i \in S : \A j \in S : i <= j

LatestOf(S) == CHOOSE i \in S : \A j \in S : i >= j

(* The place that orders name n under the Ordering of the call. *)
OrderingKey(n) ==
  IF call_args.ordering = "FIRST_ANNOTATE" THEN EarliestOf(OpsOf(n, "annotate"))
  ELSE LatestOf(OpsOf(n, "assign"))

HasOrderingOp(n) ==
  IF call_args.ordering = "FIRST_ANNOTATE" THEN OpsOf(n, "annotate") # {}
  ELSE OpsOf(n, "assign") # {}

(* out holds exactly the names of S, each once, in the order of their      *)
(* ordering ops.                                                           *)
HoldsInOrder(out, S) ==
  /\ Range(out) = S
  /\ \A i, j \in 1..Len(out) :
       i < j => OrderingKey(out[i]) < OrderingKey(out[j])

(* C28 as stated: the result holds every non-dunder name that has an       *)
(* annotation (FIRST_ANNOTATE) or an assignment (LAST_ASSIGN), once, in    *)
(* the order of the first annotation or last assignment.                   *)
C28_LocalsAreAllOrderedNames ==
  (call_done /\ call_args.fn = "get_class_locals") =>
    HoldsInOrder(call_ret.out,
                 {n \in LocalNames : ~is_dunder(n) /\ HasOrderingOp(n)})

(* C28: the result holds, once each, the non-dunder names that have an     *)
(* annotation (FIRST_ANNOTATE) or an assignment (LAST_ASSIGN), without the *)
(* names whose local is a method when allow_methods is false, in the       *)
(* order of each name's first annotation or last assignment; a class name  *)
(* absent from vm.local_ops gives an empty result.                         *)
C28_LocalsAreOrderedNonMethodNames ==
  (call_done /\ call_args.fn = "get_class_locals") =>
    /\ HoldsInOrder(call_ret.out,
                    {n \in LocalNames :
                       /\ ~is_dunder(n) /\ HasOrderingOp(n)
                       /\ call_args.allow_methods
                            \/ n \notin call_args.vm.methods})
    /\ ~call_args.vm.known => call_ret.out = <<>>

(* x assigned, y assigned, x assigned again: y comes first. *)
C28_Witness ==
  /\ call_done
  /\ call_args.fn = "get_class_locals"
  /\ call_args.ordering = "LAST_ASSIGN"
  /\ call_args.vm.ops = <<[name |-> <<"x">>, kind |-> "assign"],
                          [name |-> <<"y">>, kind |-> "assign"],
                          [name |-> <<"x">>, kind |-> "assign"]>>
  /\ call_args.vm.methods = {}
  /\ call_ret.out = <<<<"y">>, <<"x">>>>

(* -------------------------- Class._get_attrs_from_mro ------------------- *)
(* The attributes met when walking the linearization from the most         *)
(* general ancestor to the class itself, the class's own attrs last.       *)
RECURSIVE WalkedAttrs(_)
WalkedAttrs(k) ==
  IF k = 0 THEN call_args.cls_attrs
  ELSE (IF call_args.bases[k].is_class THEN call_args.bases[k].sub_attrs
        ELSE <<>>) \o WalkedAttrs(k - 1)

Walked == WalkedAttrs(Len(call_args.bases))

Occurrences(n) == {i \in 1..Len(Walked) : Walked[i].name = n}

(* C29: for a metadata key other than __attrs_attrs__ the result has one   *)
(* attribute per name met on the walk from the most general ancestor to    *)
(* the class itself, in the order of the names' first occurrences, and the *)
(* attribute of a name is its last occurrence, the one of the most derived *)
(* class that has it.                                                      *)
C29_AttrsOrderedByFirstKeptFromLast ==
  (call_done /\ call_args.fn = "_get_attrs_from_mro"
     /\ call_args.metadata_key # "__attrs_attrs__") =>
    LET out == call_ret.attrs
    IN /\ NamesOf(out) = NamesOf(Walked)
       /\ \A i, j \in 1..Len(out) :
            i < j => /\ out[i].name # out[j].name
                     /\ EarliestOf(Occurrences(out[i].name))
                          < EarliestOf(Occurrences(out[j].name))
       /\ \A i \in 1..Len(out) :
            out[i] = Walked[LatestOf(Occurrences(out[i].name))]

(* Base has a: int, b: int; the class redefines a as str: a keeps the      *)
(* first place with the new type.                                          *)
C29_Witness ==
  /\ call_done
  /\ call_args.fn = "_get_attrs_from_mro"
  /\ call_args.metadata_key = "__dataclass_fields__"
  /\ call_args.bases =
       <<MetadataEntry(<<Attribute("a", "int"), Attribute("b", "int")>>)>>
  /\ call_args.cls_attrs = <<Attribute("a", "str")>>
  /\ call_ret.attrs = <<Attribute("a", "str"), Attribute("b", "int")>>

(* --------------------- get_views: nothing read, skip -------------------- *)
(* Invocation g was resumed with skip_future true after a View from which  *)
(* no Variable was read: seen holds the empty accessed subset.             *)
CommittedNothingRead(g) ==
  \E n \in 1..Len(seen[g]) : DOMAIN seen[g][n] = {}

(* C30: once the empty accessed subset is committed it matches every       *)
(* combination still to come, and from then on the invocation yields no    *)
(* View and makes no CanHaveCombination call.                              *)
C30_EmptySubsetEndsTheViews ==
  [][\A g \in gens :
       CommittedNothingRead(g) =>
         /\ \A i \in idx[g]..NumRows(combinations[g]) :
              AlreadySeen(seen[g], View(Row(combinations[g], i, variables)))
         /\ yielded'[g] = yielded[g]
         /\ queried'[g] = queried[g]
         /\ pc'[g] \in {"loop", "done"}]_vars

(* The second View was committed with nothing read; the three reachable    *)
(* combinations after it were dropped unasked.                             *)
C30_Witness ==
  /\ Finished(1) /\ ~TooComplex
  /\ Len(yielded[1]) = 2 /\ Len(queried[1]) = 2
  /\ Len(seen[1]) = 1 /\ DOMAIN seen[1][1] = {}
  /\ Len(skipped[1]) >= 3
  /\ \A i \in 1..Len(skipped[1]) : CanHaveCombination(skipped[1][i])

====
